---- MODULE Spec2Model ----
(***************************************************************************)
(* A model of the pycomex experiment lifecycle (Experiment.execute with    *)
(* initialize / finalize), of the experiment hook map (Experiment.hook /   *)
(* Experiment.apply_hook) and of the plugin manager's priority-ordered     *)
(* hook dispatch (PluginManager.register_hook / apply_hook).               *)
(*                                                                         *)
(* Three specifications share the variables:                               *)
(*   Spec      one run of Experiment.execute                               *)
(*   SpecPM    PluginManager registrations and invocations                 *)
(*   SpecHook  Experiment.hook registrations and invocations               *)
(***************************************************************************)
EXTENDS Integers, Sequences, FiniteSets, TLC

VARIABLES
    pc,         \* position of the run inside Experiment.execute
    flags,      \* special parameters of the run: __TESTING__, __REPRODUCIBLE__
    error,      \* Experiment.error: the exception captured by the guarded region
    log,        \* history of the run: hooks fired, user code called, files written
    metadata,   \* Experiment.metadata (in memory)
    archive,    \* the archive folder on disk
    outcome,    \* what the caller of execute() has received
    pm_hooks,   \* PluginManager.hooks: hook name -> registered entries
    pm_inv,     \* the PluginManager.apply_hook call in progress
    hook_map,   \* Experiment.hook_map: hook name -> registered callbacks
    hook_inv,   \* the Experiment.apply_hook call in progress
    hook_last,  \* history: the last Experiment.hook registration
    comp,       \* the composition of an experiment: extend, include, own hooks
    parameters, \* Experiment.parameters: parameter name -> value in effect
    plug,       \* Config.load_plugins: the plugin units and the loading of them
    fs,         \* the archive folders earlier runs left on disk, by name
    run,        \* the run in progress: number, debug, name, path; earlier runs
    store,      \* Experiment.data, the files saved from it, the reloaded record
    cons,       \* Experiment.__init__: the module scope, the steps taken so far
    art,        \* track and commit_*: tracked values, artifact files, hooks fired
    vscode,     \* the VSCode extension: editors, documents, context key, terminals
    multi       \* several experiments of one process: their stores and folders

lifeVars == <<pc, flags, error, log, metadata, archive, outcome>>
pmVars == <<pm_hooks, pm_inv>>
hookVars == <<hook_map, hook_inv, hook_last>>
regVars == <<pm_hooks, pm_inv, hook_map, hook_inv, hook_last>>
compVars == <<comp, parameters>>
sideVars == <<cons, art, vscode, multi>>
sysVars == <<plug, fs, run, store, cons, art, vscode, multi>>
extVars == <<comp, parameters, plug, fs, run, store, cons, art, vscode,
            multi>>
vars == <<pc, flags, error, log, metadata, archive, outcome,
          pm_hooks, pm_inv, hook_map, hook_inv, hook_last, comp, parameters, plug, fs, run, store,
          cons, art, vscode, multi>>

----------------------------------------------------------------------------
(* Values *)

\* Exception types user code may raise.
UserErrors == {"ValueError", "KeyError"}

NoError == [type |-> "none", origin |-> "none"]

\* An exception of the given type raised at the given place.
Exc(type, origin) == [type |-> type, origin |-> origin]

\* What applying a hook does to its caller: the chain of callbacks returns, or
\* a callback raises and the exception leaves apply_hook.
ChainOutcomes == {"ok", "raise"}

\* The hooks fired outside the guarded region, from finalize on.
FinalizePhaseHooks == {"after_experiment_finalize", "before_experiment_error"}

NoMeta == [status |-> "none", has_error |-> FALSE, error_type |-> "none",
           end_time |-> FALSE]

InitialMetadata == [status |-> "running", has_error |-> FALSE,
                    error_type |-> "none", end_time |-> FALSE]

EmptyArchive == [dir |-> FALSE, code |-> FALSE, meta_state |-> "absent",
                 meta |-> NoMeta, data |-> "absent", deps |-> FALSE]

Pending == [kind |-> "pending", error |-> NoError]
Returned == [kind |-> "returned", error |-> NoError]
Raised(e) == [kind |-> "raised", error |-> e]

\* Number of occurrences of event x in sequence s.
Count(s, x) == Cardinality({i \in 1..Len(s) : s[i] = x})

\* TRUE iff x occurs in sequence s.
Has(s, x) == \E i \in 1..Len(s) : s[i] = x

----------------------------------------------------------------------------
(* Experiment.execute: initialize, the guarded region, finalize, re-raise *)

\* The event a fired hook leaves in the run's history.
Fire(h) == Append(log, h)

\* Bound of the sequence of runs of one experiment module.
MaxRuns == 2

\* No custom archive name is given.
NoName == "none"

\* The archive names "{date}__{time}__{id}" generated for successive runs; the
\* time stamp and the random id make the name of every run a new one.
AutoNames == <<"auto_1", "auto_2", "auto_3", "auto_4">>

\* The names an archive folder can have inside the namespace folder.
ArchiveNames == {"debug", "custom"} \cup {AutoNames[i] : i \in 1..Len(AutoNames)}

\* The name of the archive folder of run number n: "debug" in debug mode, else
\* the custom name if one is given, else a generated name.
ArchiveName_generated(debug, name, n) == AutoNames[n]

ArchiveName_fixed(debug, name, n) ==
    IF debug THEN "debug"
    ELSE IF name # NoName THEN name
    ELSE AutoNames[1]

ArchiveName(debug, name, n) ==
    IF debug THEN "debug"
    ELSE IF name # NoName THEN name
    ELSE AutoNames[n]

\* No folder of that name exists.
NoFolder == [dir |-> FALSE]

NoDisk == [a \in ArchiveNames |-> NoFolder]

NoRun == [n |-> 0, debug |-> FALSE, name |-> NoName, path |-> "none",
          history |-> <<>>]

\* The custom names a caller can give to the archive, or none.
CustomNames == {NoName, "custom"}

\* The n-th run of the experiment module, with or without __DEBUG__, with or
\* without a custom archive name.
NewRun(n, debug, name, history) ==
    [n |-> n, debug |-> debug, name |-> name, path |-> "none",
     history |-> history]

\* The archive folder a run starts with when `existing` is what it finds under
\* its name: the folder is created anew, a previous (debug) folder is
\* overwritten as a whole.
PreparedFolder_keep(existing) ==
    IF existing = NoFolder THEN [EmptyArchive EXCEPT !.dir = TRUE] ELSE existing

PreparedFolder(existing) == [EmptyArchive EXCEPT !.dir = TRUE]

\* Where execute() goes on when initialize() raised: initialize() is called
\* before the guarded region, so the exception leaves execute() at once.
AfterSetupFailure_finalize == "finalize"

AfterSetupFailure == "aborted"

\* initialize(), first step: prepare_path() creates the archive folder. It is
\* the one step whose failure (permissions, disk) aborts the run.
initialize_prepare_path ==
    /\ pc = "constructed"
    /\ cons.phase = "constructed"
    /\ \E ok \in BOOLEAN :
         IF ok
         THEN LET path == ArchiveName(run.debug, run.name, run.n)
              IN /\ archive' = PreparedFolder(fs[path])
                 /\ fs' = [fs EXCEPT ![path] = NoFolder]
                 /\ run' = [run EXCEPT
                              !.path = path,
                              !.history = Append(@, [debug |-> run.debug,
                                                     name |-> run.name,
                                                     path |-> path,
                                                     final |-> NoFolder])]
                 /\ log' = Append(log, "prepare_path")
                 /\ pc' = "init_hook"
                 /\ outcome' = outcome
         ELSE /\ outcome' = Raised(Exc("OSError", "prepare_path"))
              /\ pc' = AfterSetupFailure
              /\ UNCHANGED <<archive, log, fs, run>>
    /\ UNCHANGED <<flags, error, metadata, regVars, compVars, plug, store, sideVars>>

\* initialize(): pm.apply_hook("after_experiment_initialize") follows
\* prepare_path(); it runs outside the guarded region, so an exception of a
\* callback leaves execute().
initialize_hook ==
    /\ pc = "init_hook"
    /\ log' = Fire("after_experiment_initialize")
    /\ \E r \in ChainOutcomes :
         IF r = "ok"
         THEN /\ pc' = "init_save"
              /\ outcome' = outcome
         ELSE /\ pc' = "aborted"
              /\ outcome' = Raised(Exc("HookError", "after_experiment_initialize"))
    /\ UNCHANGED <<flags, error, metadata, archive, regVars, extVars>>

\* initialize(): save_dependencies(), save_code(), save_metadata(),
\* save_analysis() write the first snapshot of the run.
initialize_save ==
    /\ pc = "init_save"
    /\ metadata' = InitialMetadata
    /\ archive' = [archive EXCEPT !.code = TRUE, !.meta_state = "complete",
                                  !.meta = InitialMetadata]
    /\ log' = log \o <<"save_code", "save_metadata_initial">>
    /\ pc' = "testing"
    /\ UNCHANGED <<flags, error, outcome, regVars, extVars>>

\* What follows the guarded region (try / except) of execute(): finalize().
AfterGuardedRegion_skip == "check_error"

AfterGuardedRegion == "finalize"

\* Where the run continues after user code: apply_hook("after_run") when user
\* code returned, the exception handler (then finalize) when it raised.
AfterUserCode_always(raised) == "after_run"

AfterUserCode_retry(raised) == IF raised THEN "func" ELSE "after_run"

AfterUserCode(raised) == IF raised THEN AfterGuardedRegion ELSE "after_run"

\* The parameters of the table with the values the module itself declares:
\* the table of an experiment whose constructor has just processed them.
Declared(table) == [p \in DOMAIN table |-> "own"]

\* e.PARAM1 = 20: code that holds the experiment may assign a parameter, and
\* the assignment takes effect at once. The tables that code run by `who` may
\* leave: the table as it was, or one parameter set to a value of its own.
Assign(table, who) ==
    {table} \cup {[table EXCEPT ![p] = who] : p \in DOMAIN table}

\* apply_testing_if_possible(): the testing function is called only when
\* __TESTING__ is set.
TestingApplies_always(fl) == TRUE

TestingApplies(fl) == fl.testing

\* try: is_running = True; apply_testing_if_possible(). The testing function
\* is user code registered with Experiment.testing; it runs only when
\* __TESTING__ is set, it modifies parameters for a minimal run, and its
\* exception is captured like any other.
execute_apply_testing ==
    /\ pc = "testing"
    /\ IF TestingApplies(flags)
       THEN \E r \in ChainOutcomes :
              /\ log' = Append(log, "apply_testing")
              /\ parameters' \in Assign(parameters, "testing")
              /\ IF r = "ok"
                 THEN pc' = "before_run" /\ error' = error
                 ELSE pc' = AfterGuardedRegion /\ error' = Exc("HookError", "testing")
       ELSE pc' = "before_run" /\ UNCHANGED <<log, error, parameters>>
    /\ UNCHANGED <<flags, metadata, archive, outcome, regVars, comp, sysVars>>

\* try: apply_hook("before_run")
execute_before_run ==
    /\ pc = "before_run"
    /\ log' = Fire("before_run")
    /\ \E r \in ChainOutcomes :
         IF r = "ok"
         THEN pc' = "func" /\ error' = error
         ELSE pc' = AfterGuardedRegion /\ error' = Exc("HookError", "before_run")
    /\ UNCHANGED <<flags, metadata, archive, outcome, regVars, extVars>>

\* try: func(self), the user code; except Exception: error = exception
execute_func ==
    /\ pc = "func"
    /\ log' = Append(log, "func")
    /\ parameters' \in Assign(parameters, "user")
    /\ \/ /\ pc' = AfterUserCode(FALSE)
          /\ error' = error
       \/ \E t \in UserErrors :
            /\ pc' = AfterUserCode(TRUE)
            /\ error' = Exc(t, "user")
    /\ UNCHANGED <<flags, metadata, archive, outcome, regVars, comp, sysVars>>

\* try: apply_hook("after_run"); except Exception: error = exception
execute_after_run ==
    /\ pc = "after_run"
    /\ log' = Fire("after_run")
    /\ \E r \in ChainOutcomes :
         /\ pc' = AfterGuardedRegion
         /\ error' = IF r = "ok" THEN error ELSE Exc("HookError", "after_run")
    /\ UNCHANGED <<flags, metadata, archive, outcome, regVars, extVars>>

\* The status finalize records for a run that captured exception e.
FinalMetadata(e) ==
    [status |-> IF e = NoError THEN "done" ELSE "failed",
     has_error |-> e # NoError,
     error_type |-> e.type,
     end_time |-> TRUE]

\* What finalize() does after the end time is set: save_metadata(), then
\* save_data(), and only then the hook.
AfterEndTime_hook == "finalize_hook"

AfterEndTime == "save_metadata"

\* finalize(): metadata["end_time"] = now, and the outcome of the run.
finalize_stamp ==
    /\ pc = "finalize"
    /\ metadata' = FinalMetadata(error)
    /\ pc' = AfterEndTime
    /\ UNCHANGED <<flags, error, log, archive, outcome, regVars, extVars>>

\* finalize(): save_metadata() opens experiment_meta.json for writing, which
\* truncates the file of the initial snapshot ...
finalize_save_metadata_open ==
    /\ pc = "save_metadata"
    /\ archive' = [archive EXCEPT !.meta_state = "partial"]
    /\ pc' = "write_metadata"
    /\ UNCHANGED <<flags, error, log, metadata, outcome, regVars, extVars>>

\* ... and then writes the metadata dict into it.
finalize_save_metadata_write ==
    /\ pc = "write_metadata"
    /\ archive' = [archive EXCEPT !.meta_state = "complete", !.meta = metadata]
    /\ log' = Append(log, "save_metadata")
    /\ pc' = "save_data"
    /\ UNCHANGED <<flags, error, metadata, outcome, regVars, extVars>>

\* finalize(): save_data() writes experiment_data.json.
finalize_save_data ==
    /\ pc = "save_data"
    /\ archive' = [archive EXCEPT !.data = "complete"]
    /\ log' = Append(log, "save_data")
    /\ pc' = "finalize_hook"
    /\ UNCHANGED <<flags, error, metadata, outcome, regVars, extVars>>

\* finalize(): pm.apply_hook("after_experiment_finalize"), outside the guarded
\* region.
finalize_hook ==
    /\ pc = "finalize_hook"
    /\ log' = Fire("after_experiment_finalize")
    /\ \E r \in ChainOutcomes :
         IF r = "ok"
         THEN pc' = "reproducible" /\ outcome' = outcome
         ELSE /\ pc' = "raised"
              /\ outcome' = Raised(Exc("HookError", "after_experiment_finalize"))
    /\ UNCHANGED <<flags, error, metadata, archive, regVars, extVars>>

\* (if __REPRODUCIBLE__): the condition under which finalize() captures the
\* environment. It reads the flag alone; the error of the run is not part of it.
CaptureDue_always(fl) == TRUE

CaptureDue(fl) == fl.reproducible

\* finalize_reproducible(): .dependencies.json, .sources/ and requirements.txt
\* are added to the archive folder, next to the files it holds already.
Captured_fresh(a) == [EmptyArchive EXCEPT !.dir = TRUE, !.deps = TRUE]

Captured(a) == [a EXCEPT !.deps = TRUE]

\* finalize(): (if __REPRODUCIBLE__) finalize_reproducible()
finalize_reproducible ==
    /\ pc = "reproducible"
    /\ IF CaptureDue(flags)
       THEN /\ archive' = Captured(archive)
            /\ log' = Append(log, "finalize_reproducible")
       ELSE UNCHANGED <<archive, log>>
    /\ pc' = "after_finalize"
    /\ UNCHANGED <<flags, error, metadata, outcome, regVars, extVars>>

\* execute(), after finalize() has returned:
\* pm.apply_hook("after_experiment_finalize")
execute_after_finalize_hook ==
    /\ pc = "after_finalize"
    /\ log' = Fire("after_experiment_finalize")
    /\ \E r \in ChainOutcomes :
         IF r = "ok"
         THEN pc' = "check_error" /\ outcome' = outcome
         ELSE /\ pc' = "raised"
              /\ outcome' = Raised(Exc("HookError", "after_experiment_finalize"))
    /\ UNCHANGED <<flags, error, metadata, archive, regVars, extVars>>

\* execute(): if error: the hook before_experiment_error is applied before the
\* error is raised again; without an error execute() returns.
execute_check_error ==
    /\ pc = "check_error"
    /\ IF error = NoError
       THEN pc' = "returned" /\ outcome' = Returned /\ log' = log
       ELSE /\ log' = Fire("before_experiment_error")
            /\ \E r \in ChainOutcomes :
                 IF r = "ok"
                 THEN pc' = "reraise" /\ outcome' = outcome
                 ELSE /\ pc' = "raised"
                      /\ outcome' = Raised(Exc("HookError", "before_experiment_error"))
    /\ UNCHANGED <<flags, error, metadata, archive, regVars, extVars>>

\* The exception execute() raises at its end for the captured exception e.
ReraisedError_wrapped(e) == Exc("ExperimentError", e.origin)

ReraisedError(e) == e

\* execute(): raise error
execute_reraise ==
    /\ pc = "reraise"
    /\ outcome' = Raised(ReraisedError(error))
    /\ pc' = "raised"
    /\ UNCHANGED <<flags, error, log, metadata, archive, regVars, extVars>>

\* The experiment module is executed again (python experiment.py) after the
\* previous run has ended: the folder of that run stays on disk and a new
\* Experiment object starts from the constructed state.
run_again ==
    /\ pc \in {"returned", "raised", "aborted"}
    /\ run.n < MaxRuns
    /\ \E t \in BOOLEAN, r \in BOOLEAN, d \in BOOLEAN, nm \in CustomNames :
         /\ flags' = [testing |-> t, reproducible |-> r]
         /\ LET ran == run.path # "none"
                done == IF ran
                        THEN [run.history EXCEPT ![Len(run.history)].final = archive]
                        ELSE run.history
            IN /\ fs' = IF ran THEN [fs EXCEPT ![run.path] = archive] ELSE fs
               /\ run' = NewRun(run.n + 1, d, nm, done)
    /\ pc' = "constructed"
    /\ error' = NoError
    /\ log' = <<>>
    /\ metadata' = NoMeta
    /\ archive' = EmptyArchive
    /\ outcome' = Pending
    /\ parameters' = Declared(parameters)
    /\ UNCHANGED <<regVars, comp, plug, store, sideVars>>

----------------------------------------------------------------------------
(* PluginManager: register_hook and apply_hook *)

\* Bounds of the registries.
MaxReg == 3
MaxHooks == 3

HookNames == {"h1", "h2"}
Callbacks == {"f", "g"}
Priorities == {-1, 0, 1}

\* What a called callback does: return, raise StopHook, raise another exception.
CallOutcomes == {"ok", "stop", "raise"}

\* The record of an apply_hook call: the chain in call order, what is left of
\* it, the callbacks called, whether one raised StopHook, whether one raised
\* another exception, and how apply_hook itself ended.
NoInv == [state |-> "idle", name |-> "none", order |-> <<>>, queue |-> <<>>,
          called |-> <<>>, stopped |-> FALSE, raised |-> FALSE,
          result |-> "none"]

NoHooks == [n \in HookNames |-> <<>>]

\* Total number of entries registered with the plugin manager.
RECURSIVE TotalEntries(_, _)
TotalEntries(hooks, names) ==
    IF names = {} THEN 0
    ELSE LET n == CHOOSE x \in names : TRUE
         IN Len(hooks[n]) + TotalEntries(hooks, names \ {n})

\* register_hook(hook_name, function, priority): the entry is added to the
\* entries of the hook name. (pm_inv records the last apply_hook call against
\* the entries it ran on; the record is dropped when the entries change.)
pm_register_hook ==
    /\ pm_inv.state # "running"
    /\ TotalEntries(pm_hooks, HookNames) < MaxReg
    /\ \E n \in HookNames, f \in Callbacks, p \in Priorities :
         pm_hooks' = [pm_hooks EXCEPT ![n] = Append(@, [cb |-> f, priority |-> p])]
    /\ pm_inv' = NoInv
    /\ UNCHANGED <<lifeVars, extVars, hookVars>>

\* The position at which index i goes into the ordered list of indices `sorted`
\* of entries `es`: behind every entry of a priority at least as high, so that a
\* later registration of the same priority runs later.
RECURSIVE InsertByPriority_ascending(_, _, _)
InsertByPriority_ascending(es, sorted, i) ==
    IF sorted = <<>> THEN <<i>>
    ELSE IF es[Head(sorted)].priority <= es[i].priority
         THEN <<Head(sorted)>> \o InsertByPriority_ascending(es, Tail(sorted), i)
         ELSE <<i>> \o sorted

RECURSIVE InsertByPriority(_, _, _)
InsertByPriority(es, sorted, i) ==
    IF sorted = <<>> THEN <<i>>
    ELSE IF es[Head(sorted)].priority >= es[i].priority
         THEN <<Head(sorted)>> \o InsertByPriority(es, Tail(sorted), i)
         ELSE <<i>> \o sorted

\* The order in which apply_hook runs the entries es: priority order, highest
\* first (a stable sort of the registration order). The result lists indices
\* into es, i.e. registration numbers.
RECURSIVE SortPrefix(_, _)
SortPrefix(es, k) ==
    IF k = 0 THEN <<>> ELSE InsertByPriority(es, SortPrefix(es, k - 1), k)

PriorityOrder(es) == SortPrefix(es, Len(es))

\* apply_hook(hook_name, **kwargs) begins: the entries of the name are put in
\* priority order; a name without entries gives an empty chain.
pm_apply_hook_begin ==
    /\ pm_inv.state # "running"
    /\ \E n \in HookNames :
         pm_inv' = [state |-> "running", name |-> n,
                    order |-> PriorityOrder(pm_hooks[n]),
                    queue |-> PriorityOrder(pm_hooks[n]),
                    called |-> <<>>, stopped |-> FALSE, raised |-> FALSE,
                    result |-> "none"]
    /\ UNCHANGED <<lifeVars, extVars, pm_hooks, hookVars>>

\* The entries still to run after a callback raised StopHook: none.
AfterStop_continue(queue) == Tail(queue)

AfterStop(queue) == <<>>

\* How apply_hook ends when a callback raises an exception that is not StopHook:
\* the exception leaves apply_hook.
OnCallbackError_swallow == [state |-> "running", result |-> "none"]

OnCallbackError == [state |-> "done", result |-> "raised"]

\* apply_hook calls the next entry of the chain. StopHook ends the chain; any
\* other exception leaves apply_hook.
pm_apply_hook_call ==
    /\ pm_inv.state = "running"
    /\ pm_inv.queue # <<>>
    /\ \E o \in CallOutcomes :
         pm_inv' =
           CASE o = "ok" ->
                  [pm_inv EXCEPT !.called = Append(@, Head(pm_inv.queue)),
                                 !.queue = Tail(@)]
             [] o = "stop" ->
                  [pm_inv EXCEPT !.called = Append(@, Head(pm_inv.queue)),
                                 !.queue = AfterStop(@),
                                 !.stopped = TRUE]
             [] o = "raise" ->
                  [pm_inv EXCEPT !.called = Append(@, Head(pm_inv.queue)),
                                 !.queue = Tail(@),
                                 !.raised = TRUE,
                                 !.state = OnCallbackError.state,
                                 !.result = OnCallbackError.result]
    /\ UNCHANGED <<lifeVars, extVars, pm_hooks, hookVars>>

\* apply_hook returns when the chain is exhausted or was stopped.
pm_apply_hook_return ==
    /\ pm_inv.state = "running"
    /\ pm_inv.queue = <<>>
    /\ pm_inv' = [pm_inv EXCEPT !.state = "done", !.result = "returned"]
    /\ UNCHANGED <<lifeVars, extVars, pm_hooks, hookVars>>

----------------------------------------------------------------------------
(* Experiment.hook and Experiment.apply_hook *)

NoReg == [name |-> "none", cb |-> "none", replace |-> FALSE, default |-> FALSE,
          before |-> <<>>]

\* The callbacks of a hook name after hook(name, replace, default) has
\* registered cb: replace=True replaces the callbacks registered before,
\* replace=False appends to them. The default flag, True unless given, does not
\* keep a registration from being made when callbacks exist: two registrations
\* with replace=False both execute, and a plain registration in a child
\* experiment overrides the parent's.
Registered_always_append(before, cb, replace, default) == Append(before, cb)

Registered_always_replace(before, cb, replace, default) == <<cb>>

Registered(before, cb, replace, default) ==
    IF replace THEN <<cb>> ELSE Append(before, cb)

\* @experiment.hook(name, replace, default) applied to a function. (hook_last
\* records the registration; the record of the last apply_hook call is dropped.)
hook ==
    /\ hook_inv.state # "running"
    /\ \E n \in HookNames, f \in Callbacks, r \in BOOLEAN, d \in BOOLEAN :
         /\ Len(Registered(hook_map[n], f, r, d)) <= MaxHooks
         /\ hook_map' = [hook_map EXCEPT ![n] = Registered(@, f, r, d)]
         /\ hook_last' = [name |-> n, cb |-> f, replace |-> r, default |-> d,
                          before |-> hook_map[n]]
    /\ hook_inv' = NoInv
    /\ UNCHANGED <<lifeVars, extVars, pmVars>>

\* How e.apply_hook goes on for a name that has no callback: a missing hook is
\* not an error, the call runs an empty chain and returns (the default value).
OnMissingHook_error == [state |-> "done", result |-> "raised"]

OnMissingHook == [state |-> "running", result |-> "none"]

\* e.apply_hook(name, **kwargs) begins: the callbacks run in the order of the
\* list; a name without callbacks gives an empty chain.
apply_hook_begin ==
    /\ hook_inv.state # "running"
    /\ \E n \in HookNames :
         hook_inv' = [state |-> IF hook_map[n] = <<>> THEN OnMissingHook.state
                                ELSE "running",
                      name |-> n,
                      order |-> hook_map[n], queue |-> hook_map[n],
                      called |-> <<>>, stopped |-> FALSE, raised |-> FALSE,
                      result |-> IF hook_map[n] = <<>> THEN OnMissingHook.result
                                 ELSE "none"]
    /\ UNCHANGED <<lifeVars, extVars, pmVars, hook_map, hook_last>>

\* e.apply_hook calls the next callback; its exception leaves apply_hook.
apply_hook_call ==
    /\ hook_inv.state = "running"
    /\ hook_inv.queue # <<>>
    /\ \E o \in ChainOutcomes :
         hook_inv' =
           IF o = "ok"
           THEN [hook_inv EXCEPT !.called = Append(@, Head(hook_inv.queue)),
                                 !.queue = Tail(@)]
           ELSE [hook_inv EXCEPT !.called = Append(@, Head(hook_inv.queue)),
                                 !.queue = Tail(@),
                                 !.raised = TRUE,
                                 !.state = "done", !.result = "raised"]
    /\ UNCHANGED <<lifeVars, extVars, pmVars, hook_map, hook_last>>

\* e.apply_hook returns once every callback has run.
apply_hook_return ==
    /\ hook_inv.state = "running"
    /\ hook_inv.queue = <<>>
    /\ hook_inv' = [hook_inv EXCEPT !.state = "done", !.result = "returned"]
    /\ UNCHANGED <<lifeVars, extVars, pmVars, hook_map, hook_last>>

----------------------------------------------------------------------------
(* Composition of an experiment: Experiment.extend, Experiment.include and the
   experiment's own hooks *)

\* Bounds of the composition: callbacks per hook name in the base experiment
\* and in a mixin, and registrations made by the experiment itself.
MaxBaseHooks == 1
MaxMixinHooks == 1
MaxOwn == 1

\* The callbacks defined by the base experiment and by the two mixins; the
\* experiment's own are Callbacks.
BaseCallbacks == {"base_f", "base_g"}
MixinACallbacks == {"a_f"}
MixinBCallbacks == {"b_f"}

\* The sequences over S of length at most n.
SeqsUpTo(S, n) == UNION {[1..k -> S] : k \in 0..n}

\* The hook name the base experiment and the mixins register callbacks for;
\* the other names are left to the experiment itself.
SharedHook == "h1"

\* The hook maps a module can have built with hook(name, replace=False).
HookMaps(cbs, n) ==
    {[m \in HookNames |-> IF m = SharedHook THEN q ELSE <<>>] :
        q \in SeqsUpTo(cbs, n)}

\* Parameter names, and the places a parameter value can come from: the
\* command line (or config file), the module of the experiment itself, the
\* base experiment, the two mixins.
ParamNames == {"P", "Q"}
Sources == {"cli", "own", "base", "mixinA", "mixinB"}

\* The value of a parameter no source has defined.
Undef == "undef"

NoParameters == [p \in ParamNames |-> Undef]

NoComp == [phase |-> "none", base |-> NoHooks, mixinA |-> NoHooks,
           mixinB |-> NoHooks, own |-> NoHooks, early |-> {}, replaced |-> {},
           defines |-> [s \in Sources |-> {}]]

\* The parameter table of source s: every source gives the parameters it
\* defines a value of its own, named after the source.
ParamsOf(s) == [p \in ParamNames |-> IF p \in comp.defines[s] THEN s ELSE Undef]

\* The values of `over` replace those of `table` wherever `over` defines one.
Override(table, over) ==
    [p \in ParamNames |-> IF over[p] # Undef THEN over[p] ELSE table[p]]

\* Mixin parameters are fallback defaults: they are used only for the names
\* the experiment has not defined.
FillGaps_override(table, fallback) == Override(table, fallback)

FillGaps(table, fallback) ==
    [p \in ParamNames |-> IF table[p] # Undef THEN table[p] ELSE fallback[p]]

\* Experiment.extend(experiment_path, ..., glob=globals()): the base experiment
\* module is imported and the new experiment starts with the hooks of the base
\* and with its parameters, overridden by the parameters of the own module.
extend ==
    /\ comp.phase = "new"
    /\ hook_map' = comp.base
    /\ parameters' = Override(ParamsOf("base"), ParamsOf("own"))
    /\ comp' = [comp EXCEPT !.phase = "extended"]
    /\ hook_inv' = NoInv
    /\ UNCHANGED <<lifeVars, pmVars, hook_last, sysVars>>

\* The callbacks of a hook name after a mixin has been included: the hooks of
\* the mixin are added behind the ones the experiment has at that moment.
Merged_prepend(before, mixin_hooks) == mixin_hooks \o before

Merged(before, mixin_hooks) == before \o mixin_hooks

\* experiment.include(mixin): the mixin module is imported, its hooks are
\* merged into the hook map of the experiment and its parameters are merged as
\* fallback defaults. The first include() takes mixin A, the second mixin B.
include ==
    /\ comp.phase \in {"extended", "includedA"}
    /\ hook_inv.state # "running"
    /\ LET first == comp.phase = "extended"
           mixin == IF first THEN comp.mixinA ELSE comp.mixinB
           mixin_parameters == ParamsOf(IF first THEN "mixinA" ELSE "mixinB")
       IN /\ hook_map' = [n \in HookNames |-> Merged(hook_map[n], mixin[n])]
          /\ parameters' = FillGaps(parameters, mixin_parameters)
    /\ comp' = [comp EXCEPT !.phase = IF @ = "extended" THEN "includedA"
                                      ELSE "includedB"]
    /\ hook_inv' = NoInv
    /\ UNCHANGED <<lifeVars, pmVars, hook_last, sysVars>>

\* @experiment.hook(name, replace, default) in the module of the experiment
\* itself, at any place after extend(). (comp records the experiment's own
\* append-mode callbacks, the names registered before the last include() and
\* the names registered with replace=True.)
experiment_hook ==
    /\ comp.phase \in {"extended", "includedA", "includedB"}
    /\ hook_inv.state # "running"
    /\ \E n \in HookNames :
         /\ Len(comp.own[n]) < MaxOwn /\ n \notin comp.replaced
         /\ \E f \in Callbacks, r \in BOOLEAN, d \in BOOLEAN :
              /\ hook_map' = [hook_map EXCEPT ![n] = Registered(@, f, r, d)]
              /\ comp' = [comp EXCEPT
                            !.own[n] = IF r THEN <<f>> ELSE Append(@, f),
                            !.early = IF comp.phase # "includedB"
                                      THEN @ \cup {n} ELSE @,
                            !.replaced = IF r THEN @ \cup {n} ELSE @]
    /\ hook_inv' = NoInv
    /\ UNCHANGED <<lifeVars, pmVars, hook_last, parameters, sysVars>>

\* experiment.run_if_main(): experiment.arg_parser.parse() applies the
\* parameter overrides of the command line, then execute() begins.
parse_args ==
    /\ comp.phase = "includedB"
    /\ hook_inv.state # "running"
    /\ parameters' = Override(parameters, ParamsOf("cli"))
    /\ comp' = [comp EXCEPT !.phase = "started"]
    /\ UNCHANGED <<lifeVars, regVars, sysVars>>

----------------------------------------------------------------------------
(* Config.load_plugins: discovery and registration of the plugins *)

\* Bound of the discovery: the number of plugin units found by the scan.
MaxPlugins == 3

\* The names of the plugin units, in the order the scan enumerates them.
PluginNames == <<"p1", "p2", "p3", "p4">>

\* A plugin unit: its name, whether its main module can be imported, and the
\* hook names its Plugin subclass decorates methods for.
PluginUnits(i) ==
    [name : {PluginNames[i]}, importable : BOOLEAN, hooks : SUBSET HookNames]

NoPlug == [phase |-> "idle", units |-> <<>>, idx |-> 0, step |-> "none",
           plugins |-> {}, instances |-> <<>>, warnings |-> <<>>,
           events |-> <<>>, result |-> "none", accesses |-> 0]

\* An event of the discovery: what happened, and for which plugin.
Event(what, name) == [what |-> what, plugin |-> name]

\* The unit the discovery is working on.
CurrentUnit == plug.units[plug.idx]

\* The discovery goes on with the next unit, or fires after_plugins_loaded
\* when the scan has no unit left.
NextUnit(pl) ==
    IF pl.idx < Len(pl.units)
    THEN [pl EXCEPT !.idx = @ + 1, !.step = "import"]
    ELSE [pl EXCEPT !.step = "after_plugins_loaded"]

\* Config.__init__() calls load_plugins(): the scan enumerates the plugin units.
load_plugins_scan ==
    /\ plug.phase = "found"
    /\ plug' = NextUnit([plug EXCEPT !.phase = "loading"])
    /\ UNCHANGED <<lifeVars, regVars, compVars, fs, run, store, sideVars>>

\* What the try block around the loading of a plugin does with an exception:
\* it is turned into a warning and the discovery goes on.
OnPluginError_abort == "raise"

OnPluginError == "warn"

\* The discovery after the loading of the current unit failed in `what`.
Failed(what) ==
    IF OnPluginError = "warn"
    THEN NextUnit([plug EXCEPT
                     !.warnings = Append(@, CurrentUnit.name),
                     !.events = Append(@, Event(what, CurrentUnit.name))])
    ELSE [plug EXCEPT !.phase = "loaded", !.step = "none", !.result = "raised",
                      !.events = Append(@, Event(what, CurrentUnit.name))]

\* The entries Plugin.register() adds for a plugin: one for every decorated
\* method, pm.register_hook(hook_name, method, priority).
PluginEntries(unit, n) ==
    IF n \in unit.hooks THEN <<[cb |-> unit.name, priority |-> 0]>> ELSE <<>>

\* load_plugins(), one unit: import the module, find the Plugin subclass,
\* instantiate it with config=self and call plugin.register(). An import error
\* of the module is caught by the try block.
load_plugin ==
    /\ plug.phase = "loading" /\ plug.step = "import"
    /\ IF CurrentUnit.importable
       THEN /\ pm_hooks' = [n \in HookNames |->
                               pm_hooks[n] \o PluginEntries(CurrentUnit, n)]
            /\ plug' = [plug EXCEPT
                          !.plugins = @ \cup {CurrentUnit.name},
                          !.instances = Append(@, CurrentUnit.name),
                          !.events = Append(@, Event("register", CurrentUnit.name)),
                          !.step = "fire"]
       ELSE /\ plug' = Failed("import_error")
            /\ pm_hooks' = pm_hooks
    /\ UNCHANGED <<lifeVars, pm_inv, hookVars, compVars, fs, run, store, sideVars>>

\* The hooks applied for a plugin that has been registered, in this order:
\* plugin_registered, then the hook named after the plugin itself.
RegisteredHooks_reversed == <<"plugin_registered__name", "plugin_registered">>

RegisteredHooks == <<"plugin_registered", "plugin_registered__name">>

\* load_plugins(), one unit: pm.apply_hook("plugin_registered", ...) and
\* pm.apply_hook("plugin_registered__{name}", ...), one after the other. An
\* exception of a callback is caught by the try block like any other.
load_plugin_fire ==
    /\ plug.phase = "loading" /\ plug.step \in {"fire", "fire_second"}
    /\ LET h == RegisteredHooks[IF plug.step = "fire" THEN 1 ELSE 2]
           fired == [plug EXCEPT !.events = Append(@, Event(h, CurrentUnit.name))]
       IN \E r \in ChainOutcomes :
            plug' = IF r = "ok"
                    THEN IF plug.step = "fire"
                         THEN [fired EXCEPT !.step = "fire_second"]
                         ELSE NextUnit(fired)
                    ELSE IF OnPluginError = "warn"
                         THEN NextUnit([fired EXCEPT
                                  !.warnings = Append(@, CurrentUnit.name),
                                  !.events = Append(@, Event("hook_error",
                                                             CurrentUnit.name))])
                         ELSE [fired EXCEPT !.phase = "loaded", !.step = "none",
                                            !.result = "raised"]
    /\ UNCHANGED <<lifeVars, regVars, compVars, fs, run, store, sideVars>>

\* load_plugins() ends: pm.apply_hook("after_plugins_loaded", ...)
load_plugins_done ==
    /\ plug.phase = "loading" /\ plug.step = "after_plugins_loaded"
    /\ plug' = [plug EXCEPT !.phase = "loaded", !.step = "none",
                            !.result = "returned",
                            !.events = Append(@, Event("after_plugins_loaded",
                                                       "none"))]
    /\ UNCHANGED <<lifeVars, regVars, compVars, fs, run, store, sideVars>>

\* Bound of the accesses to the Config after its construction.
MaxAccess == 2

\* class Config(metaclass=Singleton): a call of Config() after the first one
\* returns the instance the first call made; __init__() and with it
\* load_plugins() run on the first instantiation only.
Singleton_new(pl) ==
    NextUnit([pl EXCEPT !.accesses = @ + 1, !.phase = "loading", !.idx = 0])

Singleton(pl) == [pl EXCEPT !.accesses = @ + 1]

\* Config() is called again, by the constructor of an experiment, by the
\* command line or by a plugin, to get the plugin manager.
Config_again ==
    /\ plug.phase = "loaded"
    /\ plug.accesses < MaxAccess
    /\ plug' = Singleton(plug)
    /\ UNCHANGED <<lifeVars, regVars, compVars, fs, run, store, sideVars>>

----------------------------------------------------------------------------
(* The data store: e[key] = value, save_data / save_metadata, Experiment.load *)

\* Python values put into the store or used as parameter values.
PyInt(n) == [t |-> "int", n |-> n]
PyStr(x) == [t |-> "str", x |-> x]
PyList(items) == [t |-> "list", items |-> items]
NdArray(items) == [t |-> "ndarray", items |-> items]

\* No value is stored under the key.
Absent == [t |-> "absent"]

DataValues == {PyInt(1), PyStr("x"), PyList(<<1, 2>>), NdArray(<<1, 2>>)}
ParamValues == {PyInt(1), PyStr("x")}

\* Keys of the store: paths of segments ("metrics/loss" is <<"metrics",
\* "loss">>). The segments that start with an underscore:
ScratchSegments == {"_s", "_t", "_y"}

DataKeys == {<<"a">>, <<"_s">>, <<"m", "x">>, <<"_t", "x">>, <<"m", "_y">>}

\* key.startswith("_")
StartsWithUnderscore(key) == Head(key) \in ScratchSegments

NoData == [k \in DataKeys |-> Absent]

NoStore == [phase |-> "none", data |-> NoData, files |-> "none",
            loaded |-> "none"]

\* The value the store keeps for v: numpy arrays added to the store are
\* converted to lists so that they can be json serialized later.
Stored(v) == IF v.t = "ndarray" THEN PyList(v.items) ELSE v

\* e[key] = value, during the run.
setitem ==
    /\ store.phase = "running"
    /\ \E k \in DataKeys, v \in DataValues :
         store' = [store EXCEPT !.data[k] = Stored(v)]
    /\ UNCHANGED <<lifeVars, regVars, compVars, plug, fs, run, sideVars>>

\* The json text of a value, and the value json.load makes of the text.
JsonEncode(v) ==
    CASE v.t = "int" -> [j |-> "number", n |-> v.n]
      [] v.t = "str" -> [j |-> "string", x |-> v.x]
      [] v.t = "list" -> [j |-> "array", items |-> v.items]

JsonDecode(j) ==
    CASE j.j = "number" -> PyInt(j.n)
      [] j.j = "string" -> PyStr(j.x)
      [] j.j = "array" -> PyList(j.items)

\* The keys of the store that are exported to experiment_data.json: keys which
\* start with an underscore are excluded from the export.
Exported_all(data) == {k \in DataKeys : data[k] # Absent}

Exported(data) == {k \in DataKeys : data[k] # Absent /\ ~StartsWithUnderscore(k)}

\* The "parameters" entry of experiment_meta.json for a parameter value.
ParameterEntry(name, v) ==
    [name |-> name, type |-> v.t, value |-> JsonEncode(v), usable |-> TRUE]

\* finalize(): save_metadata() and save_data() write experiment_meta.json
\* with the parameters and experiment_data.json with the exported data.
save ==
    /\ store.phase = "running"
    /\ store' = [store EXCEPT
                   !.phase = "saved",
                   !.files =
                     [meta_json |-> [p \in ParamNames |->
                                       ParameterEntry(p, parameters[p])],
                      data_json |-> [k \in Exported(store.data) |->
                                       JsonEncode(store.data[k])]]]
    /\ UNCHANGED <<lifeVars, regVars, compVars, plug, fs, run, sideVars>>

\* Experiment.load(path): the record is read back from the files in the
\* archive: the parameter values from the metadata, the data from
\* experiment_data.json.
load ==
    /\ store.phase = "saved"
    /\ store' = [store EXCEPT
                   !.phase = "loaded",
                   !.loaded =
                     [parameters |-> [p \in ParamNames |->
                                        JsonDecode(store.files.meta_json[p].value)],
                      data |-> [k \in DataKeys |->
                                  IF k \in DOMAIN store.files.data_json
                                  THEN JsonDecode(store.files.data_json[k])
                                  ELSE Absent]]]
    /\ UNCHANGED <<lifeVars, regVars, compVars, plug, fs, run, sideVars>>

----------------------------------------------------------------------------
(* Experiment.track and Experiment.commit_fig / commit_json / commit_raw *)

\* Bound of the number of track calls per name.
MaxTrack == 3

TrackNames == {"loss", "acc"}
TrackValues == {1, 2}

\* The lists e[name] = [...] can put under a tracked name.
AssignedLists == {<<7>>}

\* The kinds of artifact, the hook of each, and the file names committed.
CommitKinds == {"fig", "json", "raw"}
CommitHook ==
    [fig |-> "experiment_commit_fig", json |-> "experiment_commit_json",
     raw |-> "experiment_commit_raw"]
CommitNames == {"plot", "summary"}

\* No track or commit call has been made.
NoCall == [op |-> "none", name |-> "none", step |-> "idle", events |-> <<>>]

NoArt ==
    [phase |-> "none",
     data |-> [n \in TrackNames |-> Absent],
     calls |-> [n \in TrackNames |-> <<>>],
     assigned |-> [n \in TrackNames |-> FALSE],
     track_meta |-> {},
     files |-> {}, paths |-> {},
     call |-> NoCall]

\* The value under a tracked name after one more value is tracked: the values
\* are stored in a list instead of replacing the value each time.
Tracked_replace(cur, v) == PyInt(v)

Tracked(cur, v) ==
    IF cur = Absent THEN PyList(<<v>>) ELSE PyList(Append(cur.items, v))

\* e.track(name, value): the value is appended to e.data[name], the name is
\* noted in e.metadata["__track__"], and the hook experiment_track is applied
\* at the end of the method.
track ==
    /\ art.phase = "running"
    /\ art.call.step \in {"idle", "done", "failed", "raised"}
    /\ \E n \in TrackNames, v \in TrackValues, r \in ChainOutcomes :
         /\ Len(art.calls[n]) < MaxTrack
         /\ art' = [art EXCEPT
                      !.data[n] = Tracked(@, v),
                      !.calls[n] = Append(@, v),
                      !.track_meta = @ \cup {n},
                      !.call = [op |-> "track", name |-> n,
                                step |-> IF r = "ok" THEN "done" ELSE "raised",
                                events |-> <<"append", "experiment_track">>]]
    /\ UNCHANGED <<lifeVars, regVars, compVars, plug, fs, run, store, cons, vscode,
                 multi>>

\* e[name] = [...] for a name that is also tracked: a write to the key that
\* is not made by track.
setitem_list ==
    /\ art.phase = "running"
    /\ \E n \in TrackNames, items \in AssignedLists :
         /\ ~art.assigned[n]
         /\ art' = [art EXCEPT !.data[n] = PyList(items),
                               !.assigned[n] = TRUE]
    /\ UNCHANGED <<lifeVars, regVars, compVars, plug, fs, run, store, cons, vscode,
                 multi>>

\* A commit method is called with a file name.
Commit(kind) ==
    /\ art.phase = "running"
    /\ art.call.step \in {"idle", "done", "failed", "raised"}
    /\ \E n \in CommitNames :
         art' = [art EXCEPT !.call = [op |-> kind, name |-> n,
                                      step |-> "write", events |-> <<>>]]
    /\ UNCHANGED <<lifeVars, regVars, compVars, plug, fs, run, store, cons, vscode,
                 multi>>

commit_fig == Commit("fig")

commit_json == Commit("json")

commit_raw == Commit("raw")

\* Where a commit continues after the attempt to write the file: an error
\* of the write leaves the method.
AfterWrite_always(ok) == "record"

AfterWrite(ok) == IF ok THEN "record" ELSE "failed"

\* commit_*: the artifact is written to a file of the archive folder.
commit_write ==
    /\ art.call.step = "write"
    /\ \E ok \in BOOLEAN :
         art' = [art EXCEPT
                   !.files = IF ok THEN @ \cup {art.call.name} ELSE @,
                   !.call.events = IF ok THEN Append(@, "write") ELSE @,
                   !.call.step = AfterWrite(ok)]
    /\ UNCHANGED <<lifeVars, regVars, compVars, plug, fs, run, store, cons, vscode,
                 multi>>

\* commit_*: the path of the file, relative to the archive folder, is
\* recorded in the data store.
commit_record ==
    /\ art.call.step = "record"
    /\ art' = [art EXCEPT !.paths = @ \cup {art.call.name},
                          !.call.events = Append(@, "record"),
                          !.call.step = "hook"]
    /\ UNCHANGED <<lifeVars, regVars, compVars, plug, fs, run, store, cons, vscode,
                 multi>>

\* commit_*: pm.apply_hook("experiment_commit_<kind>", ...) at the end of the
\* method.
commit_apply_hook ==
    /\ art.call.step = "hook"
    /\ \E r \in ChainOutcomes :
         art' = [art EXCEPT
                   !.call.events = Append(@, CommitHook[art.call.op]),
                   !.call.step = IF r = "ok" THEN "done" ELSE "raised"]
    /\ UNCHANGED <<lifeVars, regVars, compVars, plug, fs, run, store, cons, vscode,
                 multi>>

----------------------------------------------------------------------------
(* The VSCode extension: the context key pycomex.isConfigFile *)

\* Bounds of the lines of a document and of the terminals created.
MaxLines == 2
MaxTerminals == 1

\* undefined / null / the empty string; paths are sequences of segments.
Undefined == "undefined"
Null == <<>>

\* The lines of a document, each the sequence of its tokens: the two keys at
\* the start of a line, and a key that is indented.
Lines == {<<"extend:", "base.py">>, <<"parameters:">>, <<" ", "extend:">>}

Texts == SeqsUpTo(Lines, MaxLines)

DocumentIds == {"doc1", "doc2"}
LanguageIds == {"yaml", "python"}

\* /^key/m.test(text): the key stands at the start of some line.
\* The texts one edit makes of a text: a line is typed at the end, or a line
\* is deleted.
Edits(text) ==
    {Append(text, l) : l \in IF Len(text) < MaxLines THEN Lines ELSE {}}
    \cup {SubSeq(text, 1, i - 1) \o SubSeq(text, i + 1, Len(text)) :
             i \in 1..Len(text)}

TestLineStart_anywhere(text, key) ==
    \E i \in 1..Len(text) : \E j \in 1..Len(text[i]) : text[i][j] = key

TestLineStart(text, key) ==
    \E i \in 1..Len(text) : text[i][1] = key

\* isPyComexConfigFile(document), for a document of the given open
\* documents (or for undefined).
isPyComexConfigFile(documents, document) ==
    IF document = Undefined THEN FALSE
    ELSE IF documents[document].languageId # "yaml" THEN FALSE
    ELSE LET text == documents[document].text
             hasExtend == TestLineStart(text, "extend:")
             hasParameters == TestLineStart(text, "parameters:")
         IN hasExtend /\ hasParameters

\* updatePyComexContext(editor): executeCommand("setContext",
\* "pycomex.isConfigFile", isConfig); the context key afterwards.
updatePyComexContext(documents, editor) ==
    [set |-> TRUE, isConfigFile |-> isPyComexConfigFile(documents, editor)]

NoVscode ==
    [activated |-> FALSE, activeTextEditor |-> Undefined,
     documents |-> [d \in DocumentIds |-> [languageId |-> "yaml", text |-> <<>>]],
     context |-> [set |-> FALSE, isConfigFile |-> FALSE],
     platform |-> "linux", cwd |-> <<"ws">>, disk |-> {}, pythonPath |-> Null,
     terminals |-> <<>>, messages |-> <<>>, errors |-> <<>>, calls |-> <<>>]

\* activate(context): the context key gets its first value from the active
\* editor, and the two listeners are registered.
activate ==
    /\ ~vscode.activated
    /\ vscode' = [vscode EXCEPT
                    !.activated = TRUE,
                    !.context =
                      updatePyComexContext(vscode.documents,
                                           vscode.activeTextEditor)]
    /\ UNCHANGED <<lifeVars, regVars, compVars, plug, fs, run, store, cons, art,
                 multi>>

\* The active editor changes (to another document, or to none) and the
\* listener of onDidChangeActiveTextEditor, once registered, runs.
onDidChangeActiveTextEditor ==
    /\ \E editor \in DocumentIds \cup {Undefined} :
         /\ editor # vscode.activeTextEditor
         /\ vscode' = [vscode EXCEPT
                         !.activeTextEditor = editor,
                         !.context =
                           IF vscode.activated
                           THEN updatePyComexContext(vscode.documents, editor)
                           ELSE @]
    /\ UNCHANGED <<lifeVars, regVars, compVars, plug, fs, run, store, cons, art,
                 multi>>

\* The text of a document changes and the listener of
\* onDidChangeTextDocument, once registered, runs: the key is updated if the
\* document is the one of the active editor.
onDidChangeTextDocument ==
    /\ \E d \in DocumentIds :
       \E text \in Edits(vscode.documents[d].text) :
         /\ LET documents == [vscode.documents EXCEPT ![d].text = text]
            IN vscode' = [vscode EXCEPT
                            !.documents = documents,
                            !.context =
                              IF vscode.activated /\ d = vscode.activeTextEditor
                              THEN updatePyComexContext(documents,
                                                        vscode.activeTextEditor)
                              ELSE @]
    /\ UNCHANGED <<lifeVars, regVars, compVars, plug, fs, run, store, cons, art,
                 multi>>

----------------------------------------------------------------------------
(* The VSCode extension: runExperimentConfig *)

\* path.join, path.dirname, path.basename on paths of segments.
join(p, segments) == p \o segments

dirname(p) == IF Len(p) <= 1 THEN <<>> ELSE SubSeq(p, 1, Len(p) - 1)

basename(p) == IF p = <<>> THEN "" ELSE p[Len(p)]

\* path.relative(from, to): up from the first path to the common ancestor,
\* then down to the second.
relative(from, to) ==
    LET shorter == IF Len(from) < Len(to) THEN Len(from) ELSE Len(to)
        common == {n \in 0..shorter : SubSeq(from, 1, n) = SubSeq(to, 1, n)}
        k == CHOOSE n \in common : \A m \in common : m <= n
    IN [i \in 1..(Len(from) - k) |-> ".."] \o SubSeq(to, k + 1, Len(to))

\* fs.existsSync(p)
existsSync(p) == p \in vscode.disk

isWindows == vscode.platform = "win32"

\* Common venv directory names, in order of preference.
venvNames == <<".venv", "venv", "env">>

\* findVirtualEnv(workspaceFolder): the first common venv directory of the
\* workspace that holds the activate script of the platform; otherwise the
\* venv of the interpreter of the python settings; otherwise null.
findVirtualEnv(workspaceFolder) ==
    LET activateOf(venvPath) ==
            IF isWindows
            THEN join(venvPath, <<"Scripts", "activate.bat">>)
            ELSE join(venvPath, <<"bin", "activate">>)
        found == {i \in 1..Len(venvNames) :
                    /\ existsSync(join(workspaceFolder, <<venvNames[i]>>))
                    /\ existsSync(activateOf(join(workspaceFolder,
                                                  <<venvNames[i]>>)))}
        first == CHOOSE i \in found : \A j \in found : i <= j
        pythonPath == vscode.pythonPath
        pythonDir == dirname(pythonPath)
        parentDir == dirname(pythonDir)
        dirName == basename(pythonDir)
        activateScript ==
            IF isWindows
            THEN join(pythonDir, <<"activate.bat">>)
            ELSE join(pythonDir, <<"activate">>)
    IN IF found # {} THEN join(workspaceFolder, <<venvNames[first]>>)
       ELSE IF /\ pythonPath # Null
               /\ dirName \in {"bin", "Scripts"}
               /\ existsSync(activateScript)
            THEN parentDir
            ELSE Null

\* Commands sent to a terminal: the program or shell builtin and its quoted
\* argument. `& "<script>"`, `"<script>"`, `source "<script>"` and
\* `pycomex run "<file>"`.
Command(program, arg) == [program |-> program, arg |-> arg]

\* getActivationCommand(venvPath)
getActivationCommand(venvPath) ==
    LET pwshScript == join(venvPath, <<"Scripts", "Activate.ps1">>)
        cmdScript == join(venvPath, <<"Scripts", "activate.bat">>)
        activateScript == join(venvPath, <<"bin", "activate">>)
        fishScript == join(venvPath, <<"bin", "activate.fish">>)
        relativePath == relative(vscode.cwd, venvPath)
        fallback ==
            IF isWindows
            THEN Command("", join(relativePath, <<"Scripts", "activate.bat">>))
            ELSE Command("source", join(relativePath, <<"bin", "activate">>))
    IN IF isWindows
       THEN IF existsSync(pwshScript) THEN Command("&", pwshScript)
            ELSE IF existsSync(cmdScript) THEN Command("", cmdScript)
            ELSE fallback
       ELSE IF existsSync(activateScript) THEN Command("source", activateScript)
            ELSE IF existsSync(fishScript) THEN Command("source", fishScript)
            ELSE fallback

\* `pycomex run "<filePath>"`
RunCommand(filePath) == Command("pycomex run", filePath)

\* The texts runExperimentConfig sends to the terminal, in order: if a venv
\* was found, its activation first, then the pycomex run command.
SentText_late(venvPath, filePath) ==
    IF venvPath # Null
    THEN <<RunCommand(filePath), getActivationCommand(venvPath)>>
    ELSE <<RunCommand(filePath)>>

SentText(venvPath, filePath) ==
    IF venvPath # Null
    THEN <<getActivationCommand(venvPath), RunCommand(filePath)>>
    ELSE <<RunCommand(filePath)>>

\* The config files run, and the workspace folder getWorkspaceFolder(uri)
\* finds for a file: the open folder that holds it, or none.
Uris == {<<"ws", "a.yml">>, <<"ws", "exp", "b.yml">>}
WorkspaceFolders == {Null, <<"ws">>}

\* runExperimentConfig(uri): a new terminal is created and shown, the venv of
\* the workspace is activated if one is found, the pycomex run command is
\* sent, and the information messages are shown. The extension afterwards:
RunExperimentConfig(uri, workspaceFolder) ==
    LET filePath == uri
        fileName == basename(filePath)
        fileDir == dirname(filePath)
        workspacePath ==
            IF workspaceFolder # Null THEN workspaceFolder ELSE fileDir
        venvPath == findVirtualEnv(workspacePath)
        terminal == [name |-> <<"PyComex: ", fileName>>, cwd |-> fileDir,
                     shown |-> TRUE, file |-> filePath,
                     workspace |-> workspacePath,
                     sent |-> SentText(venvPath, filePath)]
        activated ==
            IF venvPath # Null
            THEN <<[info |-> "Activated virtual environment: ",
                    name |-> basename(venvPath)]>>
            ELSE <<>>
    IN [vscode EXCEPT
          !.terminals = Append(@, terminal),
          !.messages = @ \o activated \o
              <<[info |-> "Running PyComex experiment: ",
                 name |-> fileName]>>]

\* A call of runExperimentConfig(uri) for a config file of the workspace.
runExperimentConfig ==
    /\ vscode.activated
    /\ Len(vscode.terminals) < MaxTerminals
    /\ \E uri \in Uris, workspaceFolder \in WorkspaceFolders :
         vscode' = RunExperimentConfig(uri, workspaceFolder)
    /\ UNCHANGED <<lifeVars, regVars, compVars, plug, fs, run, store, cons, art,
                 multi>>

\* What a directory <workspace>/<name> can hold: nothing (no directory), an
\* empty directory, or a venv with the scripts of one platform.
VenvLayouts(dir) ==
    <<{},
      {dir},
      {dir, join(dir, <<"bin", "activate">>)},
      {dir, join(dir, <<"Scripts", "activate.bat">>)},
      {dir, join(dir, <<"Scripts", "activate.bat">>),
       join(dir, <<"Scripts", "Activate.ps1">>)}>>

\* The setting python.defaultInterpreterPath with the files next to the
\* interpreter.
PythonSettings ==
    LET unix == <<"opt", "py", "bin">>
        win == <<"opt", "py", "Scripts">>
    IN {[path |-> Null, disk |-> {}],
        [path |-> <<"usr", "python3">>, disk |-> {}],
        [path |-> join(unix, <<"python">>), disk |-> {}],
        [path |-> join(unix, <<"python">>),
         disk |-> {join(unix, <<"activate">>)}],
        [path |-> join(unix, <<"python">>),
         disk |-> {join(unix, <<"activate.bat">>)}],
        [path |-> join(win, <<"python.exe">>),
         disk |-> {join(win, <<"activate.bat">>)}],
        [path |-> join(win, <<"python.exe">>),
         disk |-> {join(win, <<"activate.bat">>), join(win, <<"Activate.ps1">>)}],
        [path |-> join(win, <<"python.exe">>),
         disk |-> {join(win, <<"activate">>),
                   join(<<"opt", "py", "bin">>, <<"activate.fish">>)}]}

----------------------------------------------------------------------------
(* The VSCode extension: the commands pycomex.runConfig and pycomex.runActiveFile *)

\* Bound of the commands executed.
MaxCalls == 2

\* document.uri of an open document, and the argument of a command executed
\* without a uri.
DocumentUri(d) == <<"ws", d>>
NoUri == <<>>

\* The error runExperimentFromActiveFile() shows for the active editor, or
\* none: there is no active editor, its document is not YAML, or the text has
\* no line that begins with extend: or none that begins with parameters:.
NoMessage == ""

ActiveFileError_lax(editor) ==
    IF editor = Undefined THEN "No active file open"
    ELSE IF vscode.documents[editor].languageId # "yaml"
         THEN "Active file is not a YAML file"
         ELSE NoMessage

ActiveFileError(editor) ==
    IF editor = Undefined THEN "No active file open"
    ELSE LET document == vscode.documents[editor]
             text == document.text
             hasExtend == TestLineStart(text, "extend:")
             hasParameters == TestLineStart(text, "parameters:")
         IN IF document.languageId # "yaml"
            THEN "Active file is not a YAML file"
            ELSE IF ~hasExtend \/ ~hasParameters
                 THEN "Active file does not appear to be a PyComex experiment config"
                 ELSE NoMessage

\* runExperimentFromActiveFile(): showErrorMessage and return, or
\* runExperimentConfig(document.uri). The extension afterwards:
RunExperimentFromActiveFile(workspaceFolder) ==
    LET editor == vscode.activeTextEditor
        message == ActiveFileError(editor)
    IN IF message # NoMessage
       THEN [vscode EXCEPT !.errors = Append(@, message)]
       ELSE RunExperimentConfig(DocumentUri(editor), workspaceFolder)

\* The extension after the command, with the command noted as executed.
Executed(command, uri, after) ==
    [after EXCEPT !.calls = Append(@, [command |-> command, uri |-> uri])]

\* A command can be executed: the extension is activated, and the bounds of
\* the model leave room for its call and for a terminal.
CanExecute ==
    /\ vscode.activated
    /\ Len(vscode.calls) < MaxCalls
    /\ Len(vscode.terminals) < MaxTerminals

\* The command pycomex.runActiveFile: runExperimentFromActiveFile.
runActiveFile ==
    /\ CanExecute
    /\ \E workspaceFolder \in WorkspaceFolders :
         vscode' = Executed("pycomex.runActiveFile", NoUri,
                            RunExperimentFromActiveFile(workspaceFolder))
    /\ UNCHANGED <<lifeVars, regVars, compVars, plug, fs, run, store, cons, art,
                   multi>>

\* The command pycomex.runConfig, (uri?) => { if (uri) runExperimentConfig(uri)
\* else runExperimentFromActiveFile() }: executed without argument, or with
\* the uri of a document.
runConfig ==
    /\ CanExecute
    /\ \E uri \in {NoUri} \cup {DocumentUri(d) : d \in DocumentIds},
          workspaceFolder \in WorkspaceFolders :
         vscode' = Executed("pycomex.runConfig", uri,
                            IF uri # NoUri
                            THEN RunExperimentConfig(uri, workspaceFolder)
                            ELSE RunExperimentFromActiveFile(workspaceFolder))
    /\ UNCHANGED <<lifeVars, regVars, compVars, plug, fs, run, store, cons, art,
                   multi>>

----------------------------------------------------------------------------
(* Several experiments in one process: nested or sequential runs *)

\* The lifecycle instances of the process and the namespaces of their modules.
InstanceIds == {"e1", "e2"}
Namespaces == {"ns1", "ns2"}

\* The files of an archive folder that the operations write.
ArchiveFiles == {"experiment_meta.json", "experiment_data.json", "note.txt"}

\* The keys of the data store the operations use: one stored, one tracked.
StoreKeys == {"k", "loss"}

\* An entry the store does not have, a file that does not exist, and the path
\* of an instance that has no archive folder yet.
NoEntry == <<>>
NoFile == [by |-> "none", content |-> <<>>]
NoPath == <<>>

\* An instance that has been constructed: its module and flags are known, it
\* has no archive folder and its data store is empty.
NewInstance(namespace, debug) ==
    [phase |-> "constructed", namespace |-> namespace, debug |-> debug,
     path |-> NoPath, data |-> [k \in StoreKeys |-> NoEntry]]

\* base_path/namespace/archive_name: the archive folder of an instance that is
\* the n-th of the process to resolve its name.
ArchivePath_flat(namespace, debug, n) ==
    <<"results", ArchiveName(debug, NoName, n)>>

ArchivePath(namespace, debug, n) ==
    <<namespace, ArchiveName(debug, NoName, n)>>

ArchivePaths ==
    {ArchivePath(ns, d, n) : ns \in Namespaces, d \in BOOLEAN,
                             n \in 1..Cardinality(InstanceIds)}

EmptyFolder == [f \in ArchiveFiles |-> NoFile]

NoMulti == [instances |-> [i \in InstanceIds |-> NewInstance("ns1", FALSE)],
            resolved |-> 0,
            disk |-> [p \in ArchivePaths |-> EmptyFolder]]

\* The instance i of the process.
Instance(i) == multi.instances[i]

\* What instance i writes into a file: the content is its own.
Written(i, content) == [by |-> i, content |-> content]

\* initialize() of instance i: prepare_path() resolves the archive name and
\* creates the folder, anew if it exists.
instance_initialize(i) ==
    /\ Instance(i).phase = "constructed"
    /\ LET path == ArchivePath(Instance(i).namespace, Instance(i).debug,
                               multi.resolved + 1)
       IN multi' = [multi EXCEPT
                      !.instances[i].phase = "running",
                      !.instances[i].path = path,
                      !.resolved = @ + 1,
                      !.disk[path] = EmptyFolder]
    /\ UNCHANGED <<lifeVars, regVars, compVars, plug, fs, run, store, cons, art,
                   vscode>>

\* e["k"] = value on instance i.
instance_setitem(i) ==
    /\ Instance(i).phase = "running"
    /\ multi' = [multi EXCEPT !.instances[i].data["k"] = <<i>>]
    /\ UNCHANGED <<lifeVars, regVars, compVars, plug, fs, run, store, cons, art,
                   vscode>>

\* e.track("loss", value) on instance i: the value is appended.
instance_track(i) ==
    /\ Instance(i).phase = "running"
    /\ Len(Instance(i).data["loss"]) < MaxTrack
    /\ multi' = [multi EXCEPT !.instances[i].data["loss"] = Append(@, i)]
    /\ UNCHANGED <<lifeVars, regVars, compVars, plug, fs, run, store, cons, art,
                   vscode>>

\* e.commit_raw("note.txt", content) on instance i: the file is written into
\* the archive folder of the instance.
instance_commit(i) ==
    /\ Instance(i).phase = "running"
    /\ multi' = [multi EXCEPT
                   !.disk[Instance(i).path]["note.txt"] = Written(i, <<"note">>)]
    /\ UNCHANGED <<lifeVars, regVars, compVars, plug, fs, run, store, cons, art,
                   vscode>>

\* finalize() of instance i: save_metadata() and save_data() write the two
\* files into the archive folder of the instance.
instance_finalize(i) ==
    /\ Instance(i).phase = "running"
    /\ multi' = [multi EXCEPT
                   !.instances[i].phase = "finalized",
                   !.disk[Instance(i).path]["experiment_meta.json"] =
                       Written(i, <<"done">>),
                   !.disk[Instance(i).path]["experiment_data.json"] =
                       Written(i, <<Instance(i).data["k"],
                                  Instance(i).data["loss"]>>)]
    /\ UNCHANGED <<lifeVars, regVars, compVars, plug, fs, run, store, cons, art,
                   vscode>>

----------------------------------------------------------------------------
(* Experiment.__init__: parameter discovery and the construction hooks *)

\* The characters of a Python identifier, one of each class: an upper-case
\* letter, a lower-case letter, the underscore, a digit.
UpperCase == {"A"}
LowerCase == {"a"}
Chars == UpperCase \cup LowerCase \cup {"_", "1"}

\* Bound of the number of bindings of a module scope.
MaxScope == 3

\* The names a module can bind, of one or two characters: an identifier does
\* not start with a digit.
Identifiers ==
    {<<c>> : c \in Chars \ {"1"}}
    \cup {<<c, d>> : c \in Chars \ {"1"}, d \in Chars}

\* The globals of an experiment module in declaration order: each name is
\* bound once, to its own value (the position of its declaration).
Scopes ==
    {[i \in 1..Len(ns) |-> [name |-> ns[i], value |-> i]] :
        ns \in {q \in SeqsUpTo(Identifiers, MaxScope) :
                   \A i, j \in 1..Len(q) : i # j => q[i] # q[j]}}

\* name.isupper(): a cased character occurs and no cased character is
\* lower-case. "PARAM1" and "__DEBUG__" are upper-case; "Param2" (mixed case)
\* and "param3" are not.
isupper_any(name) == \E i \in 1..Len(name) : name[i] \in UpperCase

isupper(name) ==
    /\ \E i \in 1..Len(name) : name[i] \in UpperCase
    /\ \A i \in 1..Len(name) : name[i] \notin LowerCase

IsParameter(b) == isupper(b.name)

\* ExperimentBase._discover_parameters(): the upper-case globals of the
\* module, in the order of the module's namespace.
discover_parameters(scope) == SelectSeq(scope, IsParameter)

\* The steps of the constructor that concern parameters and plugins.
ConstructSteps_late ==
    <<"update_parameters", "before_experiment_parameters",
      "experiment_constructed">>

ConstructSteps ==
    <<"before_experiment_parameters", "update_parameters",
      "experiment_constructed">>

\* Experiment(...) has been called for a module with the given globals.
NewExperiment(scope) ==
    [phase |-> "constructing", scope |-> scope, step |-> 1,
     parameters |-> <<>>, events |-> <<>>]

\* An experiment whose constructor has returned.
Constructed ==
    [phase |-> "constructed", scope |-> <<>>, step |-> Len(ConstructSteps),
     parameters |-> <<>>, events |-> ConstructSteps]

\* The constructor is at the given step.
AtStep(name) ==
    /\ cons.phase = "constructing"
    /\ ConstructSteps[cons.step] = name

\* The constructor after a step: the next step, or the return to the caller
\* after the last one.
StepDone(c) ==
    IF c.step = Len(ConstructSteps)
    THEN [c EXCEPT !.phase = "constructed"]
    ELSE [c EXCEPT !.step = @ + 1]

\* A hook applied by the constructor: an exception of a callback leaves the
\* constructor.
ConstructHook(name) ==
    /\ AtStep(name)
    /\ \E r \in ChainOutcomes :
         LET fired == [cons EXCEPT !.events = Append(@, name)]
         IN cons' = IF r = "ok" THEN StepDone(fired)
                    ELSE [fired EXCEPT !.phase = "failed"]
    /\ UNCHANGED <<lifeVars, regVars, compVars, plug, fs, run, store, art, vscode,
                 multi>>

\* pm.apply_hook("before_experiment_parameters", experiment=self)
construct_before_parameters == ConstructHook("before_experiment_parameters")

\* The parameters of the experiment are processed: the upper-case globals of
\* the module become Experiment.parameters.
construct_update_parameters ==
    /\ AtStep("update_parameters")
    /\ cons' = StepDone([cons EXCEPT
                           !.parameters = discover_parameters(cons.scope),
                           !.events = Append(@, "update_parameters")])
    /\ UNCHANGED <<lifeVars, regVars, compVars, plug, fs, run, store, art, vscode,
                 multi>>

\* pm.apply_hook("experiment_constructed", experiment=self), at the end of the
\* constructor.
construct_constructed == ConstructHook("experiment_constructed")

----------------------------------------------------------------------------
(* The specification of one run *)

\* No experiment is being composed.
CompIdle == comp = NoComp /\ parameters = NoParameters

\* No run has been started and no folder is on disk.
DiskIdle == fs = NoDisk /\ run = NoRun

\* No experiment is under construction, no artifact has been written, the
\* editor extension is not in use.
SideIdle ==
    cons = Constructed /\ art = NoArt /\ vscode = NoVscode /\ multi = NoMulti

ExtIdle == CompIdle /\ plug = NoPlug /\ DiskIdle /\ store = NoStore /\ SideIdle

\* The first run of an experiment module, with an empty namespace folder.
FirstRun ==
    /\ fs = NoDisk
    /\ \E d \in BOOLEAN, nm \in CustomNames : run = NewRun(1, d, nm, <<>>)

LifeInit ==
    /\ pc = "constructed"
    /\ flags \in [testing : BOOLEAN, reproducible : BOOLEAN]
    /\ error = NoError
    /\ log = <<>>
    /\ metadata = NoMeta
    /\ archive = EmptyArchive
    /\ outcome = Pending

\* No registration has been made and no hook is being applied.
RegInit ==
    /\ pm_hooks = NoHooks
    /\ pm_inv = NoInv
    /\ hook_map = NoHooks
    /\ hook_inv = NoInv
    /\ hook_last = NoReg

\* The parameter table of a constructed experiment: every parameter has the
\* value the module itself declares.
DeclaredParameters == Declared(NoParameters)

Init == LifeInit /\ RegInit /\ comp = NoComp /\ parameters = DeclaredParameters
        /\ plug = NoPlug /\ FirstRun /\ store = NoStore /\ SideIdle

Next ==
    \/ initialize_prepare_path
    \/ initialize_hook
    \/ initialize_save
    \/ execute_apply_testing
    \/ execute_before_run
    \/ execute_func
    \/ execute_after_run
    \/ finalize_stamp
    \/ finalize_save_metadata_open
    \/ finalize_save_metadata_write
    \/ finalize_save_data
    \/ finalize_hook
    \/ finalize_reproducible
    \/ execute_after_finalize_hook
    \/ execute_check_error
    \/ execute_reraise

Spec == Init /\ [][Next]_vars

\* The experiment module executed several times in sequence.
NextRuns == Next \/ run_again

SpecRuns == Init /\ [][NextRuns]_vars

\* An experiment that has been constructed and is not executed.
LifeIdle ==
    /\ pc = "constructed"
    /\ flags = [testing |-> FALSE, reproducible |-> FALSE]
    /\ error = NoError
    /\ log = <<>>
    /\ metadata = NoMeta
    /\ archive = EmptyArchive
    /\ outcome = Pending

InitReg == LifeIdle /\ RegInit /\ ExtIdle

\* The plugin manager: registrations and applications of hooks.
NextPM ==
    \/ pm_register_hook
    \/ pm_apply_hook_begin
    \/ pm_apply_hook_call
    \/ pm_apply_hook_return

SpecPM == InitReg /\ [][NextPM]_vars

\* The hook map of an experiment: registrations and applications of hooks.
NextHook ==
    \/ hook
    \/ apply_hook_begin
    \/ apply_hook_call
    \/ apply_hook_return

SpecHook == InitReg /\ [][NextHook]_vars

\* An experiment module is about to be loaded: the base experiment it extends
\* and the two mixins it includes have their hooks.
InitCompose ==
    /\ LifeIdle /\ RegInit
    /\ \E b \in HookMaps(BaseCallbacks, MaxBaseHooks),
          ma \in HookMaps(MixinACallbacks, MaxMixinHooks),
          mb \in HookMaps(MixinBCallbacks, MaxMixinHooks) :
         comp = [NoComp EXCEPT !.phase = "new", !.base = b, !.mixinA = ma,
                               !.mixinB = mb]
    /\ parameters = NoParameters
    /\ plug = NoPlug
    /\ DiskIdle
    /\ store = NoStore /\ SideIdle

\* The composition of an experiment and the application of its hooks.
NextCompose ==
    \/ extend
    \/ include
    \/ experiment_hook
    \/ apply_hook_begin
    \/ apply_hook_call
    \/ apply_hook_return

SpecCompose == InitCompose /\ [][NextCompose]_vars

\* An experiment module is about to be loaded: the command line, the module
\* itself, the base experiment and the two mixins each define some parameters.
InitParams ==
    /\ LifeIdle /\ RegInit
    /\ \E d \in [Sources -> SUBSET ParamNames] :
         comp = [NoComp EXCEPT !.phase = "new", !.defines = d]
    /\ parameters = NoParameters
    /\ plug = NoPlug
    /\ DiskIdle
    /\ store = NoStore /\ SideIdle

\* The parameters of an experiment from its composition to the start of the run.
NextParams ==
    \/ extend
    \/ include
    \/ parse_args

SpecParams == InitParams /\ [][NextParams]_vars

\* The scans load_plugins() can make: up to MaxPlugins units.
UnitLists ==
    UNION {{us \in [1..k -> UNION {PluginUnits(i) : i \in 1..k}] :
               \A i \in 1..k : us[i].name = PluginNames[i]} : k \in 1..MaxPlugins}

\* A Config is being constructed: the plugin units are there to be found.
InitPlugins ==
    /\ LifeIdle /\ RegInit
    /\ CompIdle /\ DiskIdle /\ store = NoStore /\ SideIdle
    /\ \E us \in UnitLists : plug = [NoPlug EXCEPT !.phase = "found", !.units = us]

NextPlugins ==
    \/ load_plugins_scan
    \/ load_plugin
    \/ load_plugin_fire
    \/ load_plugins_done

SpecPlugins == InitPlugins /\ [][NextPlugins]_vars

\* The Config of a process: constructed once, then obtained again and again.
NextConfig ==
    \/ NextPlugins
    \/ Config_again

SpecConfig == InitPlugins /\ [][NextConfig]_vars

\* Two experiments constructed in one process, of the same module or of two
\* modules, each with or without __DEBUG__.
InitInstances ==
    /\ LifeIdle /\ RegInit
    /\ CompIdle /\ plug = NoPlug /\ DiskIdle /\ store = NoStore
    /\ cons = Constructed /\ art = NoArt /\ vscode = NoVscode
    /\ \E ns \in [InstanceIds -> Namespaces], d \in [InstanceIds -> BOOLEAN] :
         multi = [NoMulti EXCEPT
                    !.instances = [i \in InstanceIds |-> NewInstance(ns[i], d[i])]]

\* The runs of the instances, interleaved in any way: nested or in sequence.
NextInstances ==
    \E i \in InstanceIds :
        \/ instance_initialize(i)
        \/ instance_setitem(i)
        \/ instance_track(i)
        \/ instance_commit(i)
        \/ instance_finalize(i)

SpecInstances == InitInstances /\ [][NextInstances]_vars

\* A run with its parameters, about to fill its data store.
InitStore ==
    /\ LifeIdle /\ RegInit
    /\ comp = NoComp /\ plug = NoPlug /\ DiskIdle
    /\ parameters \in [ParamNames -> ParamValues]
    /\ store = [NoStore EXCEPT !.phase = "running"]
    /\ SideIdle

\* The data of a run: stored, saved to the archive, loaded from it.
NextStore ==
    \/ setitem
    \/ save
    \/ load

SpecStore == InitStore /\ [][NextStore]_vars

\* Experiment(...) is called in a module with some globals.
InitConstruct ==
    /\ LifeIdle /\ RegInit
    /\ CompIdle /\ plug = NoPlug /\ FirstRun /\ store = NoStore
    /\ art = NoArt /\ vscode = NoVscode /\ multi = NoMulti
    /\ \E sc \in Scopes : cons = NewExperiment(sc)

\* The constructor, then the first step of execute().
NextConstruct ==
    \/ construct_before_parameters
    \/ construct_update_parameters
    \/ construct_constructed
    \/ initialize_prepare_path

SpecConstruct == InitConstruct /\ [][NextConstruct]_vars

\* A run in progress: user code tracks values and commits artifacts.
InitArtifacts ==
    /\ LifeIdle /\ RegInit
    /\ CompIdle /\ plug = NoPlug /\ DiskIdle /\ store = NoStore
    /\ cons = Constructed /\ vscode = NoVscode /\ multi = NoMulti
    /\ art = [NoArt EXCEPT !.phase = "running"]

NextTrack ==
    \/ track
    \/ setitem_list

SpecTrack == InitArtifacts /\ [][NextTrack]_vars

NextCommit ==
    \/ commit_fig
    \/ commit_json
    \/ commit_raw
    \/ commit_write
    \/ commit_record
    \/ commit_apply_hook

SpecCommit == InitArtifacts /\ [][NextCommit]_vars

\* No experiment is touched by the editor extension.
PythonIdle ==
    /\ LifeIdle /\ RegInit
    /\ CompIdle /\ plug = NoPlug /\ DiskIdle /\ store = NoStore
    /\ cons = Constructed /\ art = NoArt /\ multi = NoMulti

\* The editor before the extension is activated: some documents, one of them
\* possibly in the active editor.
InitContext ==
    /\ PythonIdle
    /\ \E docs \in [DocumentIds -> [languageId : LanguageIds, text : Texts]],
          editor \in DocumentIds \cup {Undefined} :
         vscode = [NoVscode EXCEPT !.documents = docs,
                                   !.activeTextEditor = editor]

NextContext ==
    \/ activate
    \/ onDidChangeActiveTextEditor
    \/ onDidChangeTextDocument

SpecContext == InitContext /\ [][NextContext]_vars

\* The activated extension on a machine: the platform, the venv directories
\* of the workspace, the python settings, the working directory.
InitRunConfig ==
    /\ PythonIdle
    /\ \E platform \in {"linux", "win32"}, cwd \in {<<"ws">>, <<"home">>},
          python \in PythonSettings,
          layout \in [1..Len(venvNames) -> 1..5] :
         vscode =
           [NoVscode EXCEPT
              !.activated = TRUE,
              !.context = updatePyComexContext(NoVscode.documents, Undefined),
              !.platform = platform,
              !.cwd = cwd,
              !.pythonPath = python.path,
              !.disk = python.disk \cup
                  UNION {VenvLayouts(join(<<"ws">>, <<venvNames[i]>>))[layout[i]] :
                            i \in 1..Len(venvNames)}]

NextRunConfig == runExperimentConfig

SpecRunConfig == InitRunConfig /\ [][NextRunConfig]_vars

\* The activated extension with two open documents, any of them active or
\* none: the first of any language and text, the second a Python file or a
\* YAML file with the text of a config.
InitCommands ==
    /\ PythonIdle
    /\ \E first \in [languageId : LanguageIds, text : Texts],
          language \in LanguageIds,
          editor \in DocumentIds \cup {Undefined} :
         LET docs == [d \in DocumentIds |->
                        IF d = "doc1" THEN first
                        ELSE [languageId |-> language,
                              text |-> <<<<"extend:", "base.py">>,
                                         <<"parameters:">>>>]]
         IN vscode = [NoVscode EXCEPT
                        !.activated = TRUE,
                        !.documents = docs,
                        !.activeTextEditor = editor,
                        !.context = updatePyComexContext(docs, editor)]

NextCommands ==
    \/ runActiveFile
    \/ runConfig

SpecCommands == InitCommands /\ [][NextCommands]_vars

----------------------------------------------------------------------------
(* Properties of one run (specification Spec) *)

\* The run has left execute(): it returned or raised after finalize.
RunEnded == pc \in {"returned", "raised"}

\* User code was called and returned without raising.
UserCodeReturned == Has(log, "func") /\ error.origin # "user"

\* User code was called and raised.
UserCodeRaised == error.origin = "user"

\* The guarded region is over: finalize has begun.
GuardedRegionOver ==
    pc \in {"finalize", "save_metadata", "write_metadata", "save_data",
            "finalize_hook", "reproducible", "after_finalize", "check_error",
            "reraise", "returned", "raised"}

\* finalize has persisted the final metadata and the data store.
FinalizePersisted ==
    /\ Has(log, "save_metadata") /\ Has(log, "save_data")
    /\ archive.meta_state = "complete" /\ archive.meta.end_time
    /\ archive.data = "complete"

\* C1 (as claimed): in every run that reaches finalize, after_experiment_finalize
\* is fired exactly once: never twice at any moment, and once when the run ends.
C1_FinalizeHookExactlyOnce ==
    /\ Count(log, "after_experiment_finalize") <= 1
    /\ RunEnded => Count(log, "after_experiment_finalize") = 1

\* C2: after_run is fired in a run if and only if user code returned without
\* raising: it is never fired unless user code returned, never fired twice, and
\* once the guarded region is over it has been fired if user code returned.
C2_AfterRunIffUserCodeReturned ==
    /\ Has(log, "after_run") => UserCodeReturned
    /\ Count(log, "after_run") <= 1
    /\ (GuardedRegionOver /\ UserCodeReturned) => Has(log, "after_run")

C2_Witness ==
    pc = "raised" /\ UserCodeRaised /\ ~Has(log, "after_run") /\ Has(log, "before_run")

C4_FailedRunHasCompleteMetadata ==
    (outcome.kind = "raised" /\ UserCodeRaised) =>
        /\ archive.meta_state = "complete"
        /\ archive.meta.status = "failed"
        /\ archive.meta.has_error
        /\ archive.meta.error_type = error.type

C4_Witness ==
    /\ outcome.kind = "raised" /\ UserCodeRaised
    /\ archive.meta.status = "failed" /\ archive.meta.error_type \in UserErrors

SetupFailed == outcome.error.origin = "prepare_path"

\* C17: when prepare_path() cannot create the archive folder, the caller has
\* the error and the run is over before anything else happened: user code is
\* not called, before_run, after_run and after_experiment_finalize are not
\* fired, and nothing is written.
C17_SetupFailureAbortsBeforeUserCode ==
    SetupFailed =>
        /\ outcome = Raised(Exc("OSError", "prepare_path"))
        /\ pc = "aborted"
        /\ \A e \in {"func", "before_run", "after_run",
                      "after_experiment_finalize"} : ~Has(log, e)
        /\ archive = EmptyArchive /\ metadata = NoMeta

C17_Witness ==
    SetupFailed /\ pc = "aborted" /\ outcome.kind = "raised" /\ log = <<>>

----------------------------------------------------------------------------
(* Properties of the plugin manager (specification SpecPM) *)

\* Entry a of es runs before entry b: higher priority first, and of two entries
\* of equal priority the one registered first.
RunsBefore(es, a, b) ==
    \/ es[a].priority > es[b].priority
    \/ es[a].priority = es[b].priority /\ a < b

\* The registration numbers in sequence c.
Range(c) == {c[i] : i \in 1..Len(c)}

\* C6: apply_hook calls the entries of a hook name in descending priority
\* order, entries of equal priority in registration order: every callback called
\* so far runs before every one called later and before every one not yet
\* called, and a chain that ran to its end has called every entry once.
C6_DescendingPriorityStableOrder ==
    pm_inv.state # "idle" =>
        LET es == pm_hooks[pm_inv.name]
            c == pm_inv.called
        IN /\ \A i, j \in 1..Len(c) : i < j => RunsBefore(es, c[i], c[j])
           /\ \A i \in 1..Len(c) : \A k \in (1..Len(es)) \ Range(c) :
                  RunsBefore(es, c[i], k)
           /\ (pm_inv.result = "returned" /\ ~pm_inv.stopped) =>
                  (Len(c) = Len(es) /\ Range(c) = 1..Len(es))

C6_Witness ==
    /\ pm_inv.result = "returned" /\ ~pm_inv.stopped
    /\ Len(pm_inv.called) = 3
    /\ LET es == pm_hooks[pm_inv.name]
       IN /\ es[1].priority < es[2].priority
          /\ es[1].priority = es[3].priority
          /\ pm_inv.called = <<2, 1, 3>>

\* C10: once a callback has raised StopHook no later callback of the chain is
\* called (the chain has no entry left to run, and what was called is the
\* beginning of the priority order up to the callback that stopped), and
\* apply_hook returns without raising.
C10_StopHookHaltsChain ==
    pm_inv.stopped =>
        /\ pm_inv.queue = <<>>
        /\ pm_inv.called = SubSeq(pm_inv.order, 1, Len(pm_inv.called))
        /\ pm_inv.result # "raised"
        /\ pm_inv.state = "done" => pm_inv.result = "returned"

C10_Witness ==
    /\ pm_inv.stopped /\ pm_inv.state = "done" /\ pm_inv.result = "returned"
    /\ Len(pm_inv.called) < Len(pm_inv.order)

\* C11: an exception other than StopHook raised by a callback leaves
\* apply_hook: as soon as a callback has raised, the call is over with that
\* exception as its result (it is not swallowed and no later callback runs), and
\* apply_hook raises only when a callback did.
C11_CallbackErrorPropagates ==
    /\ pm_inv.raised =>
          /\ pm_inv.state = "done"
          /\ pm_inv.result = "raised"
          /\ pm_inv.called = SubSeq(pm_inv.order, 1, Len(pm_inv.called))
    /\ pm_inv.result = "raised" => pm_inv.raised

C11_Witness ==
    /\ pm_inv.raised /\ pm_inv.result = "raised" /\ ~pm_inv.stopped
    /\ Len(pm_inv.called) = 2 /\ Len(pm_inv.order) = 3

----------------------------------------------------------------------------
(* Properties of the experiment's hook map (specification SpecHook) *)

\* A registration has been made and the registry has not changed since.
HasRegistered == hook_last.name # "none"

\* apply_hook has been started for the name of the last registration.
AppliedLast == hook_inv.state # "idle" /\ hook_inv.name = hook_last.name

C9_DefaultRegistrationAddsNothing ==
    (HasRegistered /\ hook_last.default /\ hook_last.before # <<>>) =>
        hook_map[hook_last.name] = hook_last.before

\* C12: apply_hook on a name that has no registered callback raises no error,
\* calls no callback and leaves the hook map unchanged: at every moment of such
\* a call nothing has been called and nothing raised, the call ends by
\* returning, and no step of it changes the hook map.
C12_ApplyUnregisteredIsNoOp ==
    /\ []((hook_inv.state # "idle" /\ hook_map[hook_inv.name] = <<>>) =>
            /\ hook_inv.called = <<>>
            /\ ~hook_inv.raised
            /\ hook_inv.result # "raised"
            /\ hook_inv.state = "done" => hook_inv.result = "returned")
    /\ [][(hook_inv'.state # "idle" /\ hook_map[hook_inv'.name] = <<>>)
             => hook_map' = hook_map]_vars

\* An apply_hook on a name without callbacks has returned while the other name
\* has callbacks registered.
C12_Witness ==
    /\ hook_inv.state = "done" /\ hook_inv.result = "returned"
    /\ hook_map[hook_inv.name] = <<>> /\ hook_inv.called = <<>>
    /\ \E n \in HookNames : hook_map[n] # <<>>

----------------------------------------------------------------------------
(* Properties of the composition (specification SpecCompose) *)

\* Both mixins have been included.
Composed == comp.phase = "includedB"

\* The callbacks of name n in the order base, mixin A, mixin B, own.
CompositionOrder(n) ==
    comp.base[n] \o comp.mixinA[n] \o comp.mixinB[n] \o comp.own[n]

\* TRUE iff callback f is one the experiment registered itself.
IsOwn(f) == f \in Callbacks

IsInherited(f) == ~IsOwn(f)

----------------------------------------------------------------------------
(* Properties of the parameters (specification SpecParams) *)

\* execute() is about to begin: the module is loaded and the command line is
\* parsed.
ExecuteBegins == comp.phase = "started"

\* The sources other than mixins, from the highest precedence down.
Precedence == <<"cli", "own", "base">>

\* TRUE iff source Precedence[i] is the highest-precedence one defining p.
IsTopSource(i, p) ==
    /\ p \in comp.defines[Precedence[i]]
    /\ \A j \in 1..(i - 1) : p \notin comp.defines[Precedence[j]]

Mixins == {"mixinA", "mixinB"}

\* C14: when execute begins, the value of a parameter is that of the highest
\* precedence source defining it, command line over own module over base
\* experiment; the value of a mixin is in effect only when none of these
\* defines the parameter (and then some mixin's value is, if a mixin defines
\* it).
C14_ParameterPrecedence ==
    ExecuteBegins =>
        \A p \in ParamNames :
            /\ \A i \in 1..Len(Precedence) :
                   IsTopSource(i, p) => parameters[p] = Precedence[i]
            /\ parameters[p] \in Mixins =>
                   /\ \A i \in 1..Len(Precedence) :
                          p \notin comp.defines[Precedence[i]]
                   /\ p \in comp.defines[parameters[p]]
            /\ parameters[p] = Undef => \A s \in Sources : p \notin comp.defines[s]

\* One parameter is defined by every source and has the value of the command
\* line, another is defined by a mixin alone and has the mixin's value.
C14_Witness ==
    /\ ExecuteBegins
    /\ \E p, q \in ParamNames :
         /\ \A s \in Sources : p \in comp.defines[s]
         /\ parameters[p] = "cli"
         /\ \A s \in Sources : q \in comp.defines[s] <=> s = "mixinB"
         /\ parameters[q] = "mixinB"

----------------------------------------------------------------------------
(* Properties of the plugin discovery (specification SpecPlugins) *)

\* TRUE iff the plugin manager holds a hook entry of plugin `name`.
HasEntries(name) ==
    \E n \in HookNames : \E i \in 1..Len(pm_hooks[n]) : pm_hooks[n][i].cb = name

\* The discovery is through with unit i.
UnitDone(i) == plug.phase = "loaded" \/ (plug.phase = "loading" /\ plug.idx > i)

\* C15: a plugin unit whose import fails does not end the discovery with an
\* error and registers nothing, and when the discovery is over every unit that
\* can be imported, before or after a failing one, has been instantiated once
\* and has its hooks registered.
C15_ImportFailureTolerated ==
    /\ plug.result # "raised"
    /\ \A i \in 1..Len(plug.units) :
         LET u == plug.units[i]
         IN /\ ~u.importable =>
                 /\ u.name \notin plug.plugins
                 /\ ~HasEntries(u.name)
                 /\ UnitDone(i) => Has(plug.warnings, u.name)
            /\ (u.importable /\ plug.phase = "loaded") =>
                 /\ u.name \in plug.plugins
                 /\ Count(plug.instances, u.name) = 1
                 /\ \A n \in u.hooks :
                        \E k \in 1..Len(pm_hooks[n]) : pm_hooks[n][k].cb = u.name

\* The second of three units failed to import; the first and the third are
\* registered with their hooks.
C15_Witness ==
    /\ plug.phase = "loaded" /\ plug.result = "returned"
    /\ Len(plug.units) = 3
    /\ ~plug.units[2].importable
    /\ plug.plugins = {"p1", "p3"}
    /\ plug.units[3].hooks # {} /\ HasEntries("p3")

----------------------------------------------------------------------------
(* Properties of sequential runs (specification SpecRuns) *)

\* The runs so far that got an archive folder, the one in progress included.
History == run.history

\* C18: every two runs of the experiment module executed with the debug flag
\* resolve to the same archive path.
C18_DebugRunsShareArchivePath ==
    \A i, j \in 1..Len(History) :
        (History[i].debug /\ History[j].debug) => History[i].path = History[j].path

\* Two debug runs in sequence have both resolved their path.
C18_Witness ==
    /\ Len(History) = 2
    /\ History[1].debug /\ History[2].debug
    /\ History[1].path = "debug" /\ run.path = "debug"
    /\ History[1].final # NoFolder

\* The run in progress is the second of two debug runs in sequence and has
\* its archive folder.
SecondDebugRun ==
    /\ Len(History) >= 2 /\ run.path # "none"
    /\ History[Len(History)].debug /\ History[Len(History) - 1].debug

\* Every file in the archive folder has been written by the run in progress.
WrittenByThisRun ==
    /\ archive.code => Has(log, "save_code")
    /\ archive.meta_state # "absent" => Has(log, "save_metadata_initial")
    /\ archive.meta \in {NoMeta, InitialMetadata, FinalMetadata(error)}
    /\ archive.meta # NoMeta => Has(log, "save_metadata_initial")
    /\ archive.meta.end_time => Has(log, "save_metadata")
    /\ archive.data # "absent" => Has(log, "save_data")
    /\ archive.deps => Has(log, "finalize_reproducible")

\* C19: from the moment the second of two sequential debug runs has its
\* folder, the debug archive holds nothing of the first run: every file in it
\* was written by the second run, and when the second run has ended the
\* metadata and data in it are the second run's.
C19_DebugArchiveHoldsOnlySecondRun ==
    SecondDebugRun =>
        /\ run.path = History[Len(History) - 1].path
        /\ fs[run.path] = NoFolder
        /\ WrittenByThisRun
        /\ RunEnded =>
             /\ archive.meta = FinalMetadata(error)
             /\ archive.deps = Has(log, "finalize_reproducible")

\* The first debug run failed and captured its dependencies; the second one,
\* which succeeded without reproducible mode, has ended.
C19_Witness ==
    /\ SecondDebugRun /\ pc = "returned"
    /\ History[Len(History) - 1].final.meta.status = "failed"
    /\ History[Len(History) - 1].final.deps
    /\ archive.meta.status = "done" /\ ~archive.deps
    /\ archive.data = "complete"

----------------------------------------------------------------------------
(* Properties of the data store (specification SpecStore) *)

----------------------------------------------------------------------------
(* Properties of the constructor (specification SpecConstruct) *)

\* Every letter of the name is an upper-case letter, and it has a letter.
EntirelyUpperCase(name) ==
    /\ \A i \in 1..Len(name) :
         name[i] \in UpperCase \cup LowerCase => name[i] \in UpperCase
    /\ \E i \in 1..Len(name) : name[i] \in UpperCase \cup LowerCase

\* The constructor has processed the parameters of the module.
ParametersProcessed == Has(cons.events, "update_parameters")

\* C21: parameter discovery on a scope returns exactly the bindings whose
\* names are entirely upper-case: every binding returned is a binding of the
\* scope with such a name, no binding with such a name is left out, and the
\* bindings are returned in the order of their declaration (the value of a
\* binding is the position of its declaration).
C21_DiscoveryUpperCaseInOrder ==
    ParametersProcessed =>
        /\ \A i \in 1..Len(cons.parameters) :
             /\ \E j \in 1..Len(cons.scope) : cons.scope[j] = cons.parameters[i]
             /\ EntirelyUpperCase(cons.parameters[i].name)
        /\ \A j \in 1..Len(cons.scope) :
             EntirelyUpperCase(cons.scope[j].name) =>
                 \E i \in 1..Len(cons.parameters) :
                     cons.parameters[i] = cons.scope[j]
        /\ \A i, k \in 1..Len(cons.parameters) :
             i < k => cons.parameters[i].value < cons.parameters[k].value

\* Discovery has returned two upper-case bindings in their order and has left
\* out the mixed-case binding declared between them.
C21_Witness ==
    /\ ParametersProcessed
    /\ Len(cons.scope) = 3
    /\ cons.scope[2].name = <<"A", "a">>
    /\ cons.parameters = <<cons.scope[1], cons.scope[3]>>

\* execute() has begun its first step, initialize().
InitializeBegun == pc # "constructed"

\* C30: in the construction of an experiment before_experiment_parameters
\* fires once and before the parameters are processed, experiment_constructed
\* fires once, after it and as the last step: nothing of the constructor
\* follows it, a constructor that has returned has fired both, and initialize
\* begins only after the constructor has returned.
C30_ConstructionHooksInOrder ==
    LET ev == cons.events
    IN /\ Count(ev, "before_experiment_parameters") <= 1
       /\ Count(ev, "experiment_constructed") <= 1
       /\ ParametersProcessed => ev[1] = "before_experiment_parameters"
       /\ Has(ev, "experiment_constructed") =>
              /\ Has(ev, "before_experiment_parameters")
              /\ ParametersProcessed
              /\ ev[Len(ev)] = "experiment_constructed"
       /\ cons.phase = "constructed" => Has(ev, "experiment_constructed")
       /\ InitializeBegun => cons.phase = "constructed"

\* An experiment of a module with parameters has been constructed, both hooks
\* have fired, and initialize has created the archive folder.
C30_Witness ==
    /\ cons.parameters # <<>>
    /\ cons.phase = "constructed"
    /\ Has(cons.events, "experiment_constructed")
    /\ Has(log, "prepare_path")

----------------------------------------------------------------------------
(* Properties of track and commit (specifications SpecTrack, SpecCommit) *)

\* C22: after the calls track(name, v1) .. track(name, vk), and no other
\* write to the key, the data store holds under the name exactly the list
\* [v1, .., vk] in call order (nothing before the first call): no tracked
\* value replaces an earlier one.
C22_TrackAppendsInCallOrder ==
    \A n \in TrackNames :
        ~art.assigned[n] =>
            art.data[n] = IF art.calls[n] = <<>> THEN Absent
                          ELSE PyList(art.calls[n])

\* Three values, not all the same, have been tracked under one name.
C22_Witness ==
    \E n \in TrackNames :
        /\ ~art.assigned[n]
        /\ Len(art.calls[n]) = 3
        /\ art.calls[n][1] # art.calls[n][3]
        /\ art.data[n] = PyList(art.calls[n])

\* The steps of a commit of the given kind.
CommitSteps(kind) == <<"write", "record", CommitHook[kind]>>

\* The commit call in progress, or the last one made.
IsCommit == art.call.op \in CommitKinds

----------------------------------------------------------------------------
(* Properties of the VSCode extension (SpecContext, SpecRunConfig) *)

\* The document of the active editor is a YAML document with a line that
\* begins with extend: and a line that begins with parameters:.
ActiveIsConfigFile ==
    /\ vscode.activeTextEditor # Undefined
    /\ LET doc == vscode.documents[vscode.activeTextEditor]
       IN /\ doc.languageId = "yaml"
          /\ \E i \in 1..Len(doc.text) : Head(doc.text[i]) = "extend:"
          /\ \E i \in 1..Len(doc.text) : Head(doc.text[i]) = "parameters:"

\* C24: once the extension is activated, whatever editor changes and text
\* edits have happened, the last value set for the context key
\* pycomex.isConfigFile tells whether the document of the active editor is a
\* config file (false when there is no active editor).
C24_ContextKeyFollowsActiveDocument ==
    vscode.activated =>
        /\ vscode.context.set
        /\ vscode.context.isConfigFile = ActiveIsConfigFile

\* The key is set for an active config file while the other document, not
\* active, is a YAML document that only has the two keys indented or missing.
C24_Witness ==
    /\ vscode.activated
    /\ vscode.activeTextEditor = "doc2"
    /\ vscode.context.isConfigFile
    /\ vscode.documents["doc1"].languageId = "yaml"
    /\ vscode.documents["doc1"].text = <<<<" ", "extend:">>, <<"parameters:">>>>

\* The command is the pycomex run command.
IsRun(command) == command.program = "pycomex run"

\* C25: each call of runExperimentConfig sends to its new terminal exactly
\* the activation command of the venv and then pycomex run "<file>" when a
\* venv is found, exactly pycomex run "<file>" when none is found; an
\* activation command is never sent after the run command.
C25_ActivationThenRun ==
    \A i \in 1..Len(vscode.terminals) :
        LET t == vscode.terminals[i]
            venvPath == findVirtualEnv(t.workspace)
        IN /\ venvPath # Null =>
                  /\ Len(t.sent) = 2
                  /\ t.sent[1] = getActivationCommand(venvPath)
                  /\ t.sent[1].program \in {"source", "&", ""}
                  /\ t.sent[2] = RunCommand(t.file)
           /\ venvPath = Null => t.sent = <<RunCommand(t.file)>>
           /\ \A a, b \in 1..Len(t.sent) :
                  a < b /\ IsRun(t.sent[a]) => IsRun(t.sent[b])

\* A venv of the workspace was found on Windows and its PowerShell script is
\* run before the experiment.
C25_Witness ==
    \E i \in 1..Len(vscode.terminals) :
        /\ Len(vscode.terminals[i].sent) = 2
        /\ vscode.terminals[i].sent[1].program = "&"
        /\ IsRun(vscode.terminals[i].sent[2])


----------------------------------------------------------------------------
(* Properties of the lifecycle states and of the hooks around them (Spec) *)

\* The state of a lifecycle instance at position p of execute(), given
\* whether finalize() has persisted the outcome and which status it wrote:
\* constructed until initialize() has returned, initialized until the guarded
\* region is entered (is_running = True), running until finalize() has
\* persisted the outcome, then finalized with the outcome that was persisted.
StateAt(p, persisted, status) ==
    CASE p \in {"constructed", "init_hook", "init_save", "aborted"} ->
             "constructed"
      [] p = "testing" -> "initialized"
      [] p \in {"before_run", "func", "after_run", "finalize", "save_metadata",
                "write_metadata", "save_data"} -> "running"
      [] OTHER ->
             IF ~persisted THEN "unknown"
             ELSE IF status = "done" THEN "finalized-ok"
             ELSE IF status = "failed" THEN "finalized-error"
             ELSE "unknown"

\* The state of the lifecycle instance before and after a step.
LifecycleState == StateAt(pc, FinalizePersisted, archive.meta.status)

LifecycleStateNext == StateAt(pc', FinalizePersisted', archive'.meta.status)

\* The changes of state of a lifecycle instance.
LifecycleOrder ==
    {<<"constructed", "initialized">>, <<"initialized", "running">>,
     <<"running", "finalized-ok">>, <<"running", "finalized-error">>}

\* C26: a lifecycle instance passes through its states only in the order
\* constructed, initialized, running, then finalized-ok or finalized-error:
\* every step keeps the state or takes it to the next one, so no state is
\* skipped, none is entered again, and a finalized state is never left.
C26_LifecycleStatesInOrder ==
    [][\/ LifecycleStateNext = LifecycleState
       \/ <<LifecycleState, LifecycleStateNext>> \in LifecycleOrder]_vars

\* A run whose user code returned has ended in the state finalized-ok.
C26_Witness ==
    /\ pc = "returned"
    /\ LifecycleState = "finalized-ok"
    /\ UserCodeReturned

\* finalize() has completed: the outcome is persisted and the hook of finalize
\* has fired.
FinalizeCompleted == FinalizePersisted /\ Has(log, "after_experiment_finalize")

\* The error captured in the guarded region has reached the caller.
ErrorReachedCaller == error # NoError /\ outcome = Raised(error)

C28_InitializeHookAfterSnapshot ==
    Has(log, "after_experiment_initialize") =>
        /\ Has(log, "prepare_path")
        /\ Has(log, "save_code") /\ archive.code
        /\ Has(log, "save_metadata_initial") /\ archive.meta_state # "absent"

\* C29: after_experiment_finalize fires only after the final metadata and the
\* data store have been persisted to the archive.
C29_FinalizeHookAfterPersistence ==
    Has(log, "after_experiment_finalize") => FinalizePersisted

\* The hook of finalize has just fired in a successful run, with both files
\* written.
C29_Witness ==
    /\ pc = "reproducible"
    /\ Count(log, "after_experiment_finalize") = 1
    /\ FinalizePersisted
    /\ archive.meta.status = "done"

\* A callback of before_run raised: its exception is the error of the run.
BeforeRunRaised == error.origin = "before_run"

CaptureWritten == archive.deps

AssignedInRun == {"testing", "user"}

GeneratedNames == {AutoNames[i] : i \in 1..Len(AutoNames)}

\* C36: the archive name that initialize resolves follows a fixed precedence:
\* with the debug flag it is "debug", also when a custom name is given;
\* otherwise it is the custom name if one is given; otherwise it is a generated
\* name, which no other run of the sequence has.
C36_ArchiveNamePrecedence ==
    \A i \in 1..Len(History) :
        LET h == History[i]
        IN /\ h.debug => h.path = "debug"
           /\ (~h.debug /\ h.name # NoName) => h.path = h.name
           /\ (~h.debug /\ h.name = NoName) =>
                  /\ h.path \in GeneratedNames
                  /\ \A j \in 1..Len(History) : j # i => History[j].path # h.path

\* A debug run that was also given a custom name has resolved to "debug",
\* after a run with a custom name and no debug flag.
C36_Witness ==
    /\ Len(History) = 2
    /\ ~History[1].debug /\ History[1].name = "custom" /\ History[1].path = "custom"
    /\ run.debug /\ run.name = "custom" /\ run.path = "debug"

EntriesOf(name, n) == {i \in 1..Len(pm_hooks[n]) : pm_hooks[n][i].cb = name}

\* C37: within one process every plugin unit is instantiated at most once and
\* registers each of its hooks at most once, however often the Config is
\* obtained again; when the discovery has returned, every importable unit has
\* been instantiated exactly once and has exactly one entry for each of its
\* hooks, and obtaining the Config again starts no discovery.
C37_PluginsLoadedOnce ==
    /\ \A i \in 1..Len(plug.units) :
         LET u == plug.units[i]
         IN /\ Count(plug.instances, u.name) <= 1
            /\ Count(plug.events, Event("register", u.name)) <= 1
            /\ \A n \in HookNames : Cardinality(EntriesOf(u.name, n)) <= 1
            /\ (plug.phase = "loaded" /\ u.importable) =>
                   /\ Count(plug.instances, u.name) = 1
                   /\ \A n \in HookNames :
                        Cardinality(EntriesOf(u.name, n)) =
                            (IF n \in u.hooks THEN 1 ELSE 0)
    /\ plug.accesses > 0 =>
           /\ plug.phase = "loaded"
           /\ Count(plug.events, Event("after_plugins_loaded", "none")) = 1

\* The Config has been obtained MaxAccess more times after a discovery that
\* instantiated two plugins, one of which registered a hook.
C37_Witness ==
    /\ plug.accesses = MaxAccess
    /\ Len(plug.instances) >= 2
    /\ \E n \in HookNames : Len(pm_hooks[n]) >= 1

----------------------------------------------------------------------------
(* Properties of several instances (specification SpecInstances) *)

\* The step is an operation on instance i: its record changes, or a file of
\* its folder does.
ActedOn(i) ==
    \/ Instance(i)' # Instance(i)
    \/ \E p \in ArchivePaths, f \in ArchiveFiles :
         /\ multi'.disk[p][f] # multi.disk[p][f]
         /\ multi'.disk[p][f].by = i

\* The folder of instance j, if it has one, is after the step as it was before.
FolderUnchanged(j) ==
    Instance(j).path # NoPath =>
        multi'.disk[Instance(j).path] = multi.disk[Instance(j).path]

\* Two instances have resolved to the same archive folder.
SharePath(i, j) ==
    /\ i # j
    /\ Instance(i).path # NoPath
    /\ Instance(i).path = Instance(j).path

----------------------------------------------------------------------------
(* Properties of the commands of the extension (specification SpecCommands) *)

\* The step executes a command, and the command it executes.
CommandExecuted == Len(vscode'.calls) = Len(vscode.calls) + 1

ExecutedCall == vscode'.calls[Len(vscode'.calls)]

\* The step creates a terminal, and the terminal it creates.
TerminalCreated == Len(vscode'.terminals) = Len(vscode.terminals) + 1

CreatedTerminal == vscode'.terminals[Len(vscode'.terminals)]

\* The step calls runExperimentFromActiveFile(): pycomex.runActiveFile, or
\* pycomex.runConfig without a uri.
FromActiveFile == CommandExecuted /\ ExecutedCall.uri = NoUri

\* The active document is a YAML document.
ActiveIsYaml ==
    /\ vscode.activeTextEditor # Undefined
    /\ vscode.documents[vscode.activeTextEditor].languageId = "yaml"

\* The active document has a line that begins with the key.
ActiveHasLine(key) ==
    \E i \in 1..Len(vscode.documents[vscode.activeTextEditor].text) :
        Head(vscode.documents[vscode.activeTextEditor].text[i]) = key

\* C39: runExperimentFromActiveFile creates no terminal and sends no command,
\* shows an error message and returns, when there is no active editor, when
\* the active document is not YAML, and when the document has no line that
\* begins with extend: or no line that begins with parameters:.
C39_ActiveFileErrorsRunNothing ==
    [][FromActiveFile =>
          LET shown(message) ==
                  /\ vscode'.errors = Append(vscode.errors, message)
                  /\ vscode'.terminals = vscode.terminals
                  /\ vscode'.messages = vscode.messages
          IN /\ vscode.activeTextEditor = Undefined =>
                    shown("No active file open")
             /\ (vscode.activeTextEditor # Undefined /\ ~ActiveIsYaml) =>
                    shown("Active file is not a YAML file")
             /\ (ActiveIsYaml
                   /\ (~ActiveHasLine("extend:") \/ ~ActiveHasLine("parameters:"))) =>
                    shown("Active file does not appear to be a PyComex experiment config")]_vars

\* The command was executed twice on a YAML document that has the key
\* extend: only on an indented line: two error messages, no terminal.
C39_Witness ==
    /\ Len(vscode.calls) = 2
    /\ vscode.calls[1].command = "pycomex.runActiveFile"
    /\ vscode.calls[2].command = "pycomex.runConfig"
    /\ vscode.calls[2].uri = NoUri
    /\ ActiveIsYaml
    /\ vscode.documents[vscode.activeTextEditor].text =
           <<<<" ", "extend:">>, <<"parameters:">>>>
    /\ Len(vscode.errors) = 2
    /\ vscode.errors[2] =
           "Active file does not appear to be a PyComex experiment config"
    /\ vscode.terminals = <<>>

\* The document of a uri is a PyComex config file.
UriIsConfigFile(uri) ==
    \E d \in DocumentIds :
        DocumentUri(d) = uri /\ isPyComexConfigFile(vscode.documents, d)

\* C40 (as claimed): the command pycomex.runConfig, executed with or without
\* a uri, sends pycomex run only for a file that is a PyComex config file.
C40_RunConfigOnlyRunsConfigFiles ==
    [][(CommandExecuted /\ ExecutedCall.command = "pycomex.runConfig"
          /\ TerminalCreated) =>
           /\ RunCommand(CreatedTerminal.file) \in
                  {CreatedTerminal.sent[i] : i \in 1..Len(CreatedTerminal.sent)}
           /\ UriIsConfigFile(CreatedTerminal.file)]_vars

====
